---- MODULE Spec2Model ----
(***************************************************************************)
(* cmk/utils/store.py: the per-thread registry of file locks, the          *)
(* exclusive flock()-based lock with its re-open loop, and the atomic      *)
(* save (temporary file + rename), run by several threads.                *)
(*                                                                         *)
(* The operating system is modelled by a directory (name -> inode), the    *)
(* bytes of every live inode, the set of temporary directory entries, and  *)
(* the table of open file descriptions with their flock() state.  Every    *)
(* system call is one step; the thread-local bookkeeping between two       *)
(* system calls belongs to the step of the call that follows or precedes   *)
(* it.                                                                     *)
(***************************************************************************)
EXTENDS Integers, Sequences, FiniteSets, TLC

\* ----------------------------------------------------------------- bounds
NumThreads == 2
\* Calls made in all under SpecLocks and under SpecStore, and injected failures.
MaxLockCalls == 3
MaxStoreCalls == 3
MaxFaults == 1
\* Calls made in all under SpecRace.
MaxRaceCalls == 3
\* Calls made in all under SpecFacade.
MaxFacadeCalls == 2
\* Calls made in all under SpecNames.
MaxNameCalls == 3
\* Calls made in all under SpecConfig.
MaxConfigCalls == 3
\* Load-and-save cycles begun in all under SpecCycle.
MaxCycles == 3

Threads == 1..NumThreads
Paths == {"p", "q"}
\* A path can be spelled in more than one way: Names are the strings a caller
\* may pass, and Resolve gives the directory entry the system looks up for one.
Names == Paths \cup {"./p"}
Resolve(n) == IF n = "./p" THEN "p" ELSE n
\* configuration_lockfile(): the one path of the configuration lock.
configuration_lockfile == "p"
\* File contents are sequences of blocks; a write() stores one block.  The
\* blocks are numbers: 0 for the initial content, t for what thread t writes.
InitContent == <<0>>
\* What thread t saves: two blocks, both marked with the writer.
Contents(t) == {<<t, t>>}
Signals == {"MKTerminate", "MKTimeout"}

NoIno == 0
NoFd == 0
NoTmp == <<>>
\* What a path names when it names nothing, and the unset history value.
Absent == <<-1>>
Unset == <<-2>>

VARIABLES
    dir,        \* directory: path -> inode number, NoIno when the name is absent
    tmpnames,   \* temporary directory entries ".<name>.new<random>" -> inode
    inode,      \* bytes of every live inode
    ofd,        \* open file descriptions: fd -> [ino, lk, owner]
    locks,      \* _locks.acquired_locks of every thread: list of [name, fd]
    pc,         \* where every thread is
    op,         \* the function a thread has called
    path,       \* its path argument
    blocking,   \* aquire_lock's blocking argument
    lock,       \* the load functions' lock argument
    content,    \* _save_data_to_file's content argument
    arg,        \* the public function called, with its data / default / content
                \* argument and its pretty flag
    fd,         \* aquire_lock's local fd
    tmp_path,   \* _save_data_to_file's local tmp_path (NoTmp for None)
    written,    \* number of blocks of content written to the temporary file
    keys,       \* release_all_locks: the paths still to release
    res,        \* result of the call: a return value or the exception raised
    obs,        \* bytes a load has read
    calls,      \* number of calls made so far
    faults,     \* number of I/O errors and signals injected so far
    saved,      \* history: the contents for which a save to a path has started
    pre,        \* history: what the path named when the save was called
    atlock,     \* history: what the path named when the call's aquire_lock returned
    nacq,       \* history: how often a thread's aquire_lock of a path has
                \*          returned successfully since the thread last released it
    undone,     \* history: the value of nacq that the thread's last release_lock
                \*          of its call set back to 0
    retries,    \* history: how many descriptors the call's aquire_lock has found
                \*          stale in its re-open loop
    lastv       \* history: the argument of the save whose rename gave the path
                \*          the file it names now

osvars == <<dir, tmpnames, inode, ofd>>
argvars == <<op, path, blocking, lock, content, arg>>
locvars == <<fd, tmp_path, written, keys, obs>>
histvars == <<saved, pre, atlock, nacq, undone, retries, lastv>>
vars == <<dir, tmpnames, inode, ofd, locks, pc, op, path, blocking, lock, content,
          arg, fd, tmp_path, written, keys, res, obs, calls, faults, saved, pre, atlock,
          nacq, undone, retries, lastv>>

\* ------------------------------------------------------------- helpers
Restrict(f, S) == [x \in S |-> f[x]]

\* The lowest number not in S: the kernel hands out the lowest free descriptor.
LowestFree(S) ==
    CHOOSE n \in 1..(Cardinality(S) + 1) :
        n \notin S /\ \A m \in 1..(n - 1) : m \in S

\* Inodes that still have a name or an open descriptor.
Live(d, tn, o) ==
    ({d[p] : p \in Paths} \ {NoIno}) \cup {tn[n] : n \in DOMAIN tn}
        \cup {o[f].ino : f \in DOMAIN o}

\* An inode is freed with its last name and its last descriptor.
Collect(ino, d, tn, o) == Restrict(ino, Live(d, tn, o) \cap DOMAIN ino)

\* ------------------------------------------------------- system calls
\* os.open(path, O_RDONLY | O_CREAT, 0o660): the inode the name refers to,
\* created empty when the name is absent.
os_open(p) ==
    IF dir[Resolve(p)] # NoIno
    THEN [ino |-> dir[Resolve(p)], dir |-> dir, inode |-> inode]
    ELSE LET i == LowestFree(DOMAIN inode)
         IN  [ino |-> i, dir |-> [dir EXCEPT ![Resolve(p)] = i],
              inode |-> inode @@ (i :> <<>>)]

\* The descriptor table after thread t has opened inode i.
os_newfd(o, t, i) == o @@ (LowestFree(DOMAIN o) :> [ino |-> i, lk |-> FALSE, owner |-> t])

\* os.close(f): the description goes away, and its flock with it.  Closing a
\* descriptor that is not open is EBADF.
os_close(o, f) == Restrict(o, DOMAIN o \ {f})

\* Some other open file description holds the flock on the inode of f.
flock_busy(o, f) == \E g \in DOMAIN o : g # f /\ o[g].ino = o[f].ino /\ o[g].lk

\* What path p names: the bytes of its file, or Absent.
FileAt(p) == IF dir[Resolve(p)] = NoIno THEN Absent ELSE inode[dir[Resolve(p)]]

\* ------------------------------------------- Python objects and their text
\* A scalar: an int, a str (its code points), None or a bool (n is 0 or 1).
Scalar(k, n, s) == [kind |-> k, n |-> n, s |-> s]
PyInt(n) == Scalar("int", n, <<>>)
PyStr(s) == Scalar("str", 0, s)
PyNone == Scalar("none", 0, <<>>)
PyBool(b) == Scalar("bool", IF b THEN 1 ELSE 0, <<>>)

\* A structured value: a scalar, or a list, a tuple or a dict of scalars; the
\* items of a dict are its keys and values in turn, in insertion order.
PyScalar(x) == [kind |-> "scalar", items |-> <<x>>]
PyList(xs) == [kind |-> "list", items |-> xs]
PyTuple(xs) == [kind |-> "tuple", items |-> xs]
PyDict(kvs) == [kind |-> "dict", items |-> kvs]

\* Python's ==: an int and a bool are equal when their numbers are.
ScalarEq(x, y) ==
    IF x.kind \in {"int", "bool"} /\ y.kind \in {"int", "bool"} THEN x.n = y.n
    ELSE x.kind = y.kind /\ x.s = y.s

\* The key/value pairs of a dict.
Pairs(v) == {<<v.items[2 * i - 1], v.items[2 * i]>> : i \in 1..(Len(v.items) \div 2)}

\* Python's == on structured values: sequences are equal item by item, dicts
\* are equal when they have equal pairs, whatever their order.
PyEq(v, w) ==
    /\ v.kind = w.kind
    /\ IF v.kind = "dict"
       THEN /\ \A a \in Pairs(v) : \E b \in Pairs(w) :
                   ScalarEq(a[1], b[1]) /\ ScalarEq(a[2], b[2])
            /\ \A b \in Pairs(w) : \E a \in Pairs(v) :
                   ScalarEq(a[1], b[1]) /\ ScalarEq(a[2], b[2])
       ELSE /\ Len(v.items) = Len(w.items)
            /\ \A i \in 1..Len(v.items) : ScalarEq(v.items[i], w.items[i])

\* Text is a sequence of code points; these are the ones with a meaning here.
SQuote == 39
DQuote == 34
Backslash == 92
Comma == 44
Colon == 58
Space == 32
Newline == 10
Minus == 45
Zero == 48
KwNone == <<78, 111, 110, 101>>
KwTrue == <<84, 114, 117, 101>>
KwFalse == <<70, 97, 108, 115, 101>>
Opening == [list |-> 91, tuple |-> 40, dict |-> 123]
Closing == [list |-> 93, tuple |-> 41, dict |-> 125]

RECURSIVE Digits(_)
Digits(n) == IF n < 10 THEN <<Zero + n>> ELSE Digits(n \div 10) \o <<Zero + (n % 10)>>

RECURSIVE Escaped(_, _)
Escaped(s, q) ==
    IF s = <<>> THEN <<>>
    ELSE (IF Head(s) \in {q, Backslash} THEN <<Backslash, Head(s)>> ELSE <<Head(s)>>)
             \o Escaped(Tail(s), q)

\* repr of a str: single quotes, unless it has a single and no double quote.
repr_str(s) ==
    LET chars == {s[i] : i \in 1..Len(s)}
        q == IF SQuote \in chars /\ DQuote \notin chars THEN DQuote ELSE SQuote
    IN  <<q>> \o Escaped(s, q) \o <<q>>

repr_scalar(x) ==
    CASE x.kind = "int" -> IF x.n < 0 THEN <<Minus>> \o Digits(0 - x.n) ELSE Digits(x.n)
      [] x.kind = "str" -> repr_str(x.s)
      [] x.kind = "none" -> KwNone
      [] x.kind = "bool" -> IF x.n = 1 THEN KwTrue ELSE KwFalse

RECURSIVE ReprItems(_)
ReprItems(xs) ==
    IF xs = <<>> THEN <<>>
    ELSE repr_scalar(Head(xs))
             \o (IF Len(xs) > 1 THEN <<Comma, Space>> \o ReprItems(Tail(xs)) ELSE <<>>)

RECURSIVE ReprPairs(_)
ReprPairs(kvs) ==
    IF kvs = <<>> THEN <<>>
    ELSE repr_scalar(kvs[1]) \o <<Colon, Space>> \o repr_scalar(kvs[2])
             \o (IF Len(kvs) > 2 THEN <<Comma, Space>> \o ReprPairs(Tail(Tail(kvs)))
                 ELSE <<>>)

\* repr(data)
repr(v) ==
    CASE v.kind = "scalar" -> repr_scalar(v.items[1])
      [] v.kind = "list" -> <<Opening.list>> \o ReprItems(v.items) \o <<Closing.list>>
      [] v.kind = "tuple" ->
            <<Opening.tuple>> \o ReprItems(v.items)
                \o (IF Len(v.items) = 1 THEN <<Comma>> ELSE <<>>) \o <<Closing.tuple>>
      [] v.kind = "dict" -> <<Opening.dict>> \o ReprPairs(v.items) \o <<Closing.dict>>

\* The pairs of a dict with int keys, sorted by key.
RECURSIVE SortedPairs(_)
SortedPairs(kvs) ==
    IF kvs = <<>> THEN <<>>
    ELSE LET idx == {i \in 1..(Len(kvs) \div 2) :
                        \A j \in 1..(Len(kvs) \div 2) : kvs[2 * i - 1].n <= kvs[2 * j - 1].n}
             m == CHOOSE i \in idx : \A j \in idx : i <= j
         IN  <<kvs[2 * m - 1], kvs[2 * m]>>
                 \o SortedPairs(SubSeq(kvs, 1, 2 * m - 2) \o SubSeq(kvs, 2 * m + 1, Len(kvs)))

\* pprint.pformat(data) of a value whose text fits into one line of 80
\* columns: the text of repr, a dict with its keys sorted.
pformat(v) ==
    IF v.kind = "dict"
    THEN <<Opening.dict>> \o ReprPairs(SortedPairs(v.items)) \o <<Closing.dict>>
    ELSE repr(v)

\* An encoding of every code point as one byte.
encode_one_byte(s) == s

\* str.encode("utf-8") for code points below 2048.
RECURSIVE encode(_)
encode(s) ==
    IF s = <<>> THEN <<>>
    ELSE (IF Head(s) < 128 THEN <<Head(s)>>
          ELSE <<192 + (Head(s) \div 64), 128 + (Head(s) % 64)>>) \o encode(Tail(s))

\* bytes.decode("utf-8"): the text, or ok = FALSE for UnicodeDecodeError.
RECURSIVE decode(_)
decode(b) ==
    IF b = <<>> THEN [ok |-> TRUE, s |-> <<>>]
    ELSE IF b[1] \in 0..127
    THEN LET r == decode(Tail(b)) IN [ok |-> r.ok, s |-> <<b[1]>> \o r.s]
    ELSE IF b[1] \in 194..223 /\ Len(b) >= 2 /\ b[2] \in 128..191
    THEN LET r == decode(Tail(Tail(b)))
         IN  [ok |-> r.ok, s |-> <<(b[1] - 192) * 64 + (b[2] - 128)>> \o r.s]
    ELSE [ok |-> FALSE, s |-> <<>>]

\* six.ensure_binary(content): a str is encoded, bytes are taken as they are.
ensure_binary(o) == IF o.kind = "text" THEN encode(o.b) ELSE o.b

\* ast.literal_eval: a scanner over the text, position by position.
Failed == [ok |-> FALSE, val |-> PyNone, next |-> 0]

StartsWith(cs, i, w) == i + Len(w) - 1 <= Len(cs) /\ SubSeq(cs, i, i + Len(w) - 1) = w

RECURSIVE SkipWs(_, _)
SkipWs(cs, i) == IF i <= Len(cs) /\ cs[i] \in {Space, Newline} THEN SkipWs(cs, i + 1) ELSE i

RECURSIVE ScanStr(_, _, _, _)
ScanStr(cs, i, q, acc) ==
    IF i > Len(cs) \/ cs[i] = Newline THEN Failed
    ELSE IF cs[i] = q THEN [ok |-> TRUE, val |-> PyStr(acc), next |-> i + 1]
    ELSE IF cs[i] = Backslash
    THEN IF i + 1 <= Len(cs) /\ cs[i + 1] \in {SQuote, DQuote, Backslash}
         THEN ScanStr(cs, i + 2, q, Append(acc, cs[i + 1]))
         ELSE Failed
    ELSE ScanStr(cs, i + 1, q, Append(acc, cs[i]))

RECURSIVE ScanDigits(_, _, _)
ScanDigits(cs, i, n) ==
    IF i <= Len(cs) /\ cs[i] \in Zero..(Zero + 9)
    THEN ScanDigits(cs, i + 1, 10 * n + (cs[i] - Zero))
    ELSE [n |-> n, next |-> i]

ScanScalar(cs, i) ==
    IF i > Len(cs) THEN Failed
    ELSE IF cs[i] \in {SQuote, DQuote} THEN ScanStr(cs, i + 1, cs[i], <<>>)
    ELSE IF cs[i] \in Zero..(Zero + 9)
    THEN LET r == ScanDigits(cs, i, 0) IN [ok |-> TRUE, val |-> PyInt(r.n), next |-> r.next]
    ELSE IF cs[i] = Minus
    THEN LET r == ScanDigits(cs, i + 1, 0)
         IN  IF r.next = i + 1 THEN Failed
             ELSE [ok |-> TRUE, val |-> PyInt(0 - r.n), next |-> r.next]
    ELSE IF StartsWith(cs, i, KwNone) THEN [ok |-> TRUE, val |-> PyNone, next |-> i + 4]
    ELSE IF StartsWith(cs, i, KwTrue) THEN [ok |-> TRUE, val |-> PyBool(TRUE), next |-> i + 4]
    ELSE IF StartsWith(cs, i, KwFalse) THEN [ok |-> TRUE, val |-> PyBool(FALSE), next |-> i + 5]
    ELSE Failed

\* The items up to the closing bracket: [ok, items, commas, next].
RECURSIVE ScanItems(_, _, _, _, _)
ScanItems(cs, i, close, acc, commas) ==
    LET j == SkipWs(cs, i)
    IN  IF j > Len(cs) THEN [ok |-> FALSE, items |-> <<>>, commas |-> 0, next |-> 0]
        ELSE IF cs[j] = close
        THEN [ok |-> TRUE, items |-> acc, commas |-> commas, next |-> j + 1]
        ELSE LET r == ScanScalar(cs, j)
                 k == SkipWs(cs, r.next)
             IN  IF ~r.ok \/ k > Len(cs)
                 THEN [ok |-> FALSE, items |-> <<>>, commas |-> 0, next |-> 0]
                 ELSE IF cs[k] = Comma
                 THEN ScanItems(cs, k + 1, close, Append(acc, r.val), commas + 1)
                 ELSE IF cs[k] = close
                 THEN [ok |-> TRUE, items |-> Append(acc, r.val), commas |-> commas,
                       next |-> k + 1]
                 ELSE [ok |-> FALSE, items |-> <<>>, commas |-> 0, next |-> 0]

\* The key: value pairs up to the closing brace; a key given again replaces
\* the value it had.
PutPair(acc, key, val) ==
    IF \E i \in 1..(Len(acc) \div 2) : ScalarEq(acc[2 * i - 1], key)
    THEN [i \in 1..Len(acc) |->
             IF i % 2 = 0 /\ ScalarEq(acc[i - 1], key) THEN val ELSE acc[i]]
    ELSE acc \o <<key, val>>

RECURSIVE ScanPairs(_, _, _)
ScanPairs(cs, i, acc) ==
    LET j == SkipWs(cs, i)
        bad == [ok |-> FALSE, items |-> <<>>, commas |-> 0, next |-> 0]
    IN  IF j > Len(cs) THEN bad
        ELSE IF cs[j] = Closing.dict
        THEN [ok |-> TRUE, items |-> acc, commas |-> 0, next |-> j + 1]
        ELSE LET key == ScanScalar(cs, j)
                 c == SkipWs(cs, key.next)
             IN  IF ~key.ok \/ c > Len(cs) \/ cs[c] # Colon THEN bad
                 ELSE LET val == ScanScalar(cs, SkipWs(cs, c + 1))
                          k == SkipWs(cs, val.next)
                      IN  IF ~val.ok \/ k > Len(cs) THEN bad
                          ELSE IF cs[k] = Comma
                          THEN ScanPairs(cs, k + 1, PutPair(acc, key.val, val.val))
                          ELSE IF cs[k] = Closing.dict
                          THEN [ok |-> TRUE, items |-> PutPair(acc, key.val, val.val),
                                commas |-> 0, next |-> k + 1]
                          ELSE bad

\* ast.literal_eval(content): [ok, val]; ok = FALSE stands for the
\* SyntaxError or ValueError of a text that is no literal.
literal_eval(cs) ==
    LET bad == [ok |-> FALSE, val |-> PyScalar(PyNone)]
        done(v, next) == IF SkipWs(cs, next) > Len(cs) THEN [ok |-> TRUE, val |-> v] ELSE bad
    IN  IF cs = <<>> THEN bad
        ELSE IF cs[1] = Opening.list
        THEN LET r == ScanItems(cs, 2, Closing.list, <<>>, 0)
             IN  IF r.ok THEN done(PyList(r.items), r.next) ELSE bad
        ELSE IF cs[1] = Opening.tuple
        THEN LET r == ScanItems(cs, 2, Closing.tuple, <<>>, 0)
             IN  IF ~r.ok THEN bad
                 ELSE IF Len(r.items) = 1 /\ r.commas = 0
                 THEN done(PyScalar(r.items[1]), r.next)
                 ELSE done(PyTuple(r.items), r.next)
        ELSE IF cs[1] = Opening.dict
        THEN LET r == ScanPairs(cs, 2, <<>>)
             IN  IF r.ok THEN done(PyDict(r.items), r.next) ELSE bad
        ELSE LET r == ScanScalar(cs, 1)
             IN  IF r.ok THEN done(PyScalar(r.val), r.next) ELSE bad

\* What a public function is given or returns: bytes, text (code points in
\* b), a structured value, or nothing.
Obj(k, b, v) == [kind |-> k, b |-> b, v |-> v]
NoObj == Obj("none", <<>>, PyScalar(PyNone))
BytesObj(b) == Obj("bytes", b, PyScalar(PyNone))
TextObj(cs) == Obj("text", cs, PyScalar(PyNone))
ValueObj(v) == Obj("object", <<>>, v)

\* The arguments beside the path: of a function that has neither data nor flag.
PlainArg(f) == [fn |-> f, obj |-> NoObj, pretty |-> FALSE]

\* ------------------------------------------------------- the registry
\* with_lock_dict: the dictionary a thread sees is its own.
\* One registry for the whole process instead of one per thread.
with_lock_dict_shared(t) == 1

with_lock_dict(t) == t

Reg(t) == locks[with_lock_dict(t)]

_has_lock(t, name) == \E i \in 1..Len(Reg(t)) : Reg(t)[i].name = name

have_lock(t, p) == _has_lock(t, p)

_get_lock(t, name) ==
    IF _has_lock(t, name)
    THEN (CHOOSE e \in {Reg(t)[i] : i \in 1..Len(Reg(t))} : e.name = name).fd
    ELSE NoFd

_set_lock(t, name, f) ==
    [locks EXCEPT ![with_lock_dict(t)] =
        IF _has_lock(t, name)
        THEN [i \in 1..Len(@) |-> IF @[i].name = name THEN [name |-> name, fd |-> f] ELSE @[i]]
        ELSE Append(@, [name |-> name, fd |-> f])]

_del_lock(t, name) ==
    [locks EXCEPT ![with_lock_dict(t)] = SelectSeq(@, LAMBDA e : e.name # name)]

_del_all_locks(t) == [locks EXCEPT ![with_lock_dict(t)] = <<>>]

\* A key list that stops after the first key.
_get_lock_keys_first(t) == [i \in 1..(IF Len(Reg(t)) > 0 THEN 1 ELSE 0) |-> Reg(t)[i].name]

_get_lock_keys(t) == [i \in 1..Len(Reg(t)) |-> Reg(t)[i].name]

\* ------------------------------------------------------------- state
Init ==
    /\ dir = [p \in Paths |-> IF p = "p" THEN 1 ELSE NoIno]
    /\ tmpnames = <<>>
    /\ inode = (1 :> InitContent)
    /\ ofd = <<>>
    /\ locks = [t \in Threads |-> <<>>]
    /\ pc = [t \in Threads |-> "idle"]
    /\ op = [t \in Threads |-> "none"]
    /\ path = [t \in Threads |-> "p"]
    /\ blocking = [t \in Threads |-> TRUE]
    /\ lock = [t \in Threads |-> FALSE]
    /\ content = [t \in Threads |-> <<>>]
    /\ arg = [t \in Threads |-> PlainArg("none")]
    /\ fd = [t \in Threads |-> NoFd]
    /\ tmp_path = [t \in Threads |-> NoTmp]
    /\ written = [t \in Threads |-> 0]
    /\ keys = [t \in Threads |-> <<>>]
    /\ res = [t \in Threads |-> "none"]
    /\ obs = [t \in Threads |-> <<>>]
    /\ calls = 0
    /\ faults = 0
    /\ saved = [p \in Paths |-> {}]
    /\ pre = [t \in Threads |-> Unset]
    /\ atlock = [t \in Threads |-> Unset]
    /\ nacq = [t \in Threads |-> [p \in Names |-> 0]]
    /\ undone = [t \in Threads |-> 0]
    /\ retries = [t \in Threads |-> 0]
    /\ lastv = [p \in Paths |-> NoObj]

Goto(t, l, r) ==
    /\ pc' = [pc EXCEPT ![t] = l]
    /\ res' = [res EXCEPT ![t] = r]

Fault ==
    /\ faults < MaxFaults
    /\ faults' = faults + 1

\* ---------------------------------------------------------- release_lock
\* release_lock(path) in thread t: nothing when the thread's registry lacks the
\* path; otherwise close the recorded descriptor (EBADF is ignored) and drop
\* the entry.
\* A counting release: the lock is kept until every acquisition is released.
release_lock_counted(t, p) ==
    IF ~have_lock(t, p)
    THEN /\ undone' = [undone EXCEPT ![t] = 0]
         /\ UNCHANGED <<ofd, inode, locks, nacq>>
    ELSE IF nacq[t][p] > 1
    THEN /\ nacq' = [nacq EXCEPT ![t][p] = @ - 1]
         /\ undone' = [undone EXCEPT ![t] = nacq[t][p]]
         /\ UNCHANGED <<ofd, inode, locks>>
    ELSE /\ ofd' = os_close(ofd, _get_lock(t, p))
         /\ inode' = Collect(inode, dir, tmpnames, ofd')
         /\ locks' = _del_lock(t, p)
         /\ nacq' = [nacq EXCEPT ![t][p] = 0]
         /\ undone' = [undone EXCEPT ![t] = nacq[t][p]]

release_lock(t, p) ==
    IF ~have_lock(t, p)
    THEN /\ undone' = [undone EXCEPT ![t] = 0]
         /\ UNCHANGED <<ofd, inode, locks, nacq>>
    ELSE /\ ofd' = os_close(ofd, _get_lock(t, p))
         /\ inode' = Collect(inode, dir, tmpnames, ofd')
         /\ locks' = _del_lock(t, p)
         /\ nacq' = [nacq EXCEPT ![t][p] = 0]
         /\ undone' = [undone EXCEPT ![t] = nacq[t][p]]

\* ----------------------------------------------------------- aquire_lock
\* try_aquire_lock: EAGAIN becomes False, every other exception propagates.
try_result(e) == IF e = "ok" THEN "True" ELSE IF e = "EAGAIN" THEN "False" ELSE e

\* _save_data_to_file's handlers: MKTerminate and MKTimeout are re-raised,
\* every other exception becomes MKGeneralException.
save_except(e) == IF e \in Signals THEN e ELSE "MKGeneralException"

\* Callers of aquire_lock of which none gives a timeout another name.
AfterAquire_plain(t, e) ==
    CASE op[t] = "aquire_lock" -> Goto(t, "done", e)
      [] op[t] = "try_aquire_lock" -> Goto(t, "done", try_result(e))
      [] op[t] = "_save_data_to_file" ->
            IF e = "ok" THEN Goto(t, "sv_mktemp", res[t])
            ELSE Goto(t, "fin_release", save_except(e))
      [] op[t] = "_load_bytes_from_file" ->
            IF e = "ok" THEN Goto(t, "ld_read", res[t]) ELSE Goto(t, "done", e)
      [] op[t] = "load_mk_file" ->
            IF e = "ok" THEN Goto(t, "mk_read", res[t]) ELSE Goto(t, "done", e)
      [] op[t] = "locked" ->
            IF e = "ok" THEN Goto(t, "body", e) ELSE Goto(t, "fin_release", e)
      [] op[t] = "try_locked" ->
            IF e \in {"ok", "EAGAIN"} THEN Goto(t, "body", try_result(e))
            ELSE Goto(t, "fin_release", e)
      [] op[t] = "lock_checkmk_configuration" ->
            IF e = "ok" THEN Goto(t, "body", e) ELSE Goto(t, "done", e)

\* Where a caller of aquire_lock goes on when the call has returned ("ok") or
\* raised e.
AfterAquire(t, e) ==
    CASE op[t] = "aquire_lock" -> Goto(t, "done", e)
      [] op[t] = "try_aquire_lock" -> Goto(t, "done", try_result(e))
      [] op[t] = "_save_data_to_file" ->
            IF e = "ok" THEN Goto(t, "sv_mktemp", res[t])
            ELSE Goto(t, "fin_release", save_except(e))
      [] op[t] = "_load_bytes_from_file" ->
            IF e = "ok" THEN Goto(t, "ld_read", res[t]) ELSE Goto(t, "done", e)
      [] op[t] = "load_mk_file" ->
            IF e = "ok" THEN Goto(t, "mk_read", res[t]) ELSE Goto(t, "done", e)
      [] op[t] = "locked" ->
            IF e = "ok" THEN Goto(t, "body", e) ELSE Goto(t, "fin_release", e)
      [] op[t] = "try_locked" ->
            IF e \in {"ok", "EAGAIN"} THEN Goto(t, "body", try_result(e))
            ELSE Goto(t, "fin_release", e)
      [] op[t] = "lock_checkmk_configuration" ->
            IF e = "ok" THEN Goto(t, "body", e)
            ELSE Goto(t, "done", IF e = "MKTimeout" THEN "MKConfigLockTimeout" ELSE e)

\* have_lock short-circuit, then os.open(path, O_RDONLY | O_CREAT).
AqOpen(t) ==
    /\ pc[t] = "aq_open"
    /\ IF have_lock(t, path[t])
       THEN /\ AfterAquire(t, "ok")
            /\ nacq' = [nacq EXCEPT ![t][path[t]] = @ + 1]
            /\ atlock' = [atlock EXCEPT ![t] = FileAt(path[t])]
            /\ UNCHANGED <<osvars, fd, faults>>
       ELSE \/ LET r == os_open(path[t])
               IN  /\ dir' = r.dir
                   /\ inode' = r.inode
                   /\ ofd' = os_newfd(ofd, t, r.ino)
                   /\ fd' = [fd EXCEPT ![t] = LowestFree(DOMAIN ofd)]
                   /\ pc' = [pc EXCEPT ![t] = "aq_flock"]
                   /\ UNCHANGED <<tmpnames, res, faults, nacq, atlock>>
            \/ /\ Fault
               /\ AfterAquire(t, "IOError")
               /\ UNCHANGED <<osvars, fd, nacq, atlock>>
    /\ UNCHANGED <<locks, argvars, tmp_path, written, keys, obs, calls, saved, pre,
                   undone, retries, lastv>>

\* An flock that is granted whoever holds the lock.
AqFlock_shared(t) ==
    /\ pc[t] = "aq_flock"
    /\ ofd' = [ofd EXCEPT ![fd[t]].lk = TRUE]
    /\ pc' = [pc EXCEPT ![t] = "aq_reopen"]
    /\ UNCHANGED <<inode, fd, res, faults>>
    /\ UNCHANGED <<dir, tmpnames, locks, argvars, tmp_path, written, keys, obs, calls,
                   histvars>>

\* An flock whose would-block error leaves the descriptor open.
AqFlock_no_close(t) ==
    /\ pc[t] = "aq_flock"
    /\ \/ /\ ~flock_busy(ofd, fd[t])
          /\ ofd' = [ofd EXCEPT ![fd[t]].lk = TRUE]
          /\ pc' = [pc EXCEPT ![t] = "aq_reopen"]
          /\ UNCHANGED <<inode, fd, res, faults>>
       \/ /\ flock_busy(ofd, fd[t]) /\ ~blocking[t]
          /\ fd' = [fd EXCEPT ![t] = NoFd]
          /\ AfterAquire(t, "EAGAIN")
          /\ UNCHANGED <<ofd, inode, faults>>
       \/ /\ Fault
          /\ ofd' = os_close(ofd, fd[t])
          /\ inode' = Collect(inode, dir, tmpnames, ofd')
          /\ fd' = [fd EXCEPT ![t] = NoFd]
          /\ AfterAquire(t, "IOError")
       \/ /\ flock_busy(ofd, fd[t]) /\ blocking[t]
          /\ Fault
          /\ \E s \in Signals : AfterAquire(t, s)
          /\ fd' = [fd EXCEPT ![t] = NoFd]
          /\ UNCHANGED <<ofd, inode>>
    /\ UNCHANGED <<dir, tmpnames, locks, argvars, tmp_path, written, keys, obs, calls,
                   histvars>>

\* fcntl.flock(fd, LOCK_EX [| LOCK_NB]).
AqFlock(t) ==
    /\ pc[t] = "aq_flock"
    /\ \/ /\ ~flock_busy(ofd, fd[t])
          /\ ofd' = [ofd EXCEPT ![fd[t]].lk = TRUE]
          /\ pc' = [pc EXCEPT ![t] = "aq_reopen"]
          /\ UNCHANGED <<inode, fd, res, faults>>
       \/ \* LOCK_NB and the lock is taken: IOError(EAGAIN); close(fd); raise
          /\ flock_busy(ofd, fd[t]) /\ ~blocking[t]
          /\ ofd' = os_close(ofd, fd[t])
          /\ inode' = Collect(inode, dir, tmpnames, ofd')
          /\ fd' = [fd EXCEPT ![t] = NoFd]
          /\ AfterAquire(t, "EAGAIN")
          /\ UNCHANGED faults
       \/ \* flock fails with another IOError: close(fd); raise
          /\ Fault
          /\ ofd' = os_close(ofd, fd[t])
          /\ inode' = Collect(inode, dir, tmpnames, ofd')
          /\ fd' = [fd EXCEPT ![t] = NoFd]
          /\ AfterAquire(t, "IOError")
       \/ \* a signal handler raises while flock waits: no IOError, fd stays open
          /\ flock_busy(ofd, fd[t]) /\ blocking[t]
          /\ Fault
          /\ \E s \in Signals : AfterAquire(t, s)
          /\ fd' = [fd EXCEPT ![t] = NoFd]
          /\ UNCHANGED <<ofd, inode>>
    /\ UNCHANGED <<dir, tmpnames, locks, argvars, tmp_path, written, keys, obs, calls,
                   histvars>>

\* An aquire_lock that records the descriptor it has locked without looking
\* at what the path names now.
AqReopen_no_check(t) ==
    /\ pc[t] = "aq_reopen"
    /\ \/ /\ locks' = _set_lock(t, path[t], fd[t])
          /\ nacq' = [nacq EXCEPT ![t][path[t]] = @ + 1]
          /\ atlock' = [atlock EXCEPT ![t] = FileAt(path[t])]
          /\ fd' = [fd EXCEPT ![t] = NoFd]
          /\ AfterAquire(t, "ok")
          /\ UNCHANGED <<osvars, faults, retries>>
       \/ /\ Fault
          /\ fd' = [fd EXCEPT ![t] = NoFd]
          /\ AfterAquire(t, "IOError")
          /\ UNCHANGED <<osvars, locks, nacq, atlock, retries>>
    /\ UNCHANGED <<argvars, tmp_path, written, keys, obs, calls, saved, pre, undone,
                   lastv>>

\* A re-open loop that drops fd_new and keeps the descriptor it has locked.
AqReopen_keep_fd(t) ==
    /\ pc[t] = "aq_reopen"
    /\ \/ LET r == os_open(path[t])
          IN  IF r.ino = ofd[fd[t]].ino
              THEN /\ locks' = _set_lock(t, path[t], fd[t])
                   /\ nacq' = [nacq EXCEPT ![t][path[t]] = @ + 1]
                   /\ atlock' = [atlock EXCEPT ![t] = FileAt(path[t])]
                   /\ fd' = [fd EXCEPT ![t] = NoFd]
                   /\ AfterAquire(t, "ok")
                   /\ UNCHANGED <<osvars, faults, retries>>
              ELSE /\ dir' = r.dir
                   /\ inode' = Collect(r.inode, r.dir, tmpnames, ofd)
                   /\ pc' = [pc EXCEPT ![t] = "aq_flock"]
                   /\ UNCHANGED <<ofd, fd, tmpnames, locks, nacq, atlock, res, faults,
                                  retries>>
       \/ /\ Fault
          /\ fd' = [fd EXCEPT ![t] = NoFd]
          /\ AfterAquire(t, "IOError")
          /\ UNCHANGED <<osvars, locks, nacq, atlock, retries>>
    /\ UNCHANGED <<argvars, tmp_path, written, keys, obs, calls, saved, pre, undone,
                   lastv>>

\* fd_new = os.open(path); sameopenfile(fd, fd_new) ? record fd : retry with fd_new.
AqReopen(t) ==
    /\ pc[t] = "aq_reopen"
    /\ \/ LET r == os_open(path[t])
          IN  IF r.ino = ofd[fd[t]].ino
              THEN /\ locks' = _set_lock(t, path[t], fd[t])
                   /\ nacq' = [nacq EXCEPT ![t][path[t]] = @ + 1]
                   /\ atlock' = [atlock EXCEPT ![t] = FileAt(path[t])]
                   /\ fd' = [fd EXCEPT ![t] = NoFd]
                   /\ AfterAquire(t, "ok")
                   /\ UNCHANGED <<osvars, faults, retries>>
              ELSE /\ ofd' = os_close(os_newfd(ofd, t, r.ino), fd[t])
                   /\ fd' = [fd EXCEPT ![t] = LowestFree(DOMAIN ofd)]
                   /\ dir' = r.dir
                   /\ inode' = Collect(r.inode, r.dir, tmpnames, ofd')
                   /\ pc' = [pc EXCEPT ![t] = "aq_flock"]
                   /\ retries' = [retries EXCEPT ![t] = @ + 1]
                   /\ UNCHANGED <<tmpnames, locks, nacq, atlock, res, faults>>
       \/ \* os.open raises: nothing closes fd, which holds the flock
          /\ Fault
          /\ fd' = [fd EXCEPT ![t] = NoFd]
          /\ AfterAquire(t, "IOError")
          /\ UNCHANGED <<osvars, locks, nacq, atlock, retries>>
    /\ UNCHANGED <<argvars, tmp_path, written, keys, obs, calls, saved, pre, undone,
                   lastv>>

\* ------------------------------------------------- calls of release_lock
\* release_lock(path) called by the thread itself.
Release(t) ==
    /\ pc[t] = "rel"
    /\ release_lock(t, path[t])
    /\ Goto(t, "done", "ok")
    /\ UNCHANGED <<dir, tmpnames, argvars, locvars, calls, faults, saved, pre, atlock,
                   retries, lastv>>

\* The finally clause of _save_data_to_file, locked and try_locked; the
\* pending result or exception is kept.
FinRelease(t) ==
    /\ pc[t] = "fin_release"
    /\ release_lock(t, path[t])
    /\ Goto(t, "done", res[t])
    /\ UNCHANGED <<dir, tmpnames, argvars, locvars, calls, faults, saved, pre, atlock,
                   retries, lastv>>

\* release_all_locks: release_lock for every key of the registry, in the
\* order of the list taken at the start, then _del_all_locks.
ReleaseAll(t) ==
    /\ pc[t] = "ra_loop"
    /\ IF keys[t] # <<>>
       THEN /\ release_lock(t, Head(keys[t]))
            /\ keys' = [keys EXCEPT ![t] = Tail(@)]
            /\ UNCHANGED <<pc, res>>
       ELSE /\ locks' = _del_all_locks(t)
            /\ Goto(t, "done", "ok")
            /\ UNCHANGED <<ofd, inode, nacq, undone, keys>>
    /\ UNCHANGED <<dir, tmpnames, argvars, fd, tmp_path, written, obs, calls, faults,
                   saved, pre, atlock, retries, lastv>>

\* The block under "with locked(path)" or "with try_locked(path)": it ends
\* normally or raises.
Body(t) ==
    /\ pc[t] = "body"
    /\ \/ Goto(t, "fin_release", res[t])
       \/ Goto(t, "fin_release", "BodyError")
    /\ UNCHANGED <<osvars, locks, argvars, locvars, calls, faults, histvars>>

\* ----------------------------------------------------- _save_data_to_file
\* unlink(tmp_path) of the exception handler.
os_unlink_tmp(n) == Restrict(tmpnames, DOMAIN tmpnames \ {n})

\* A name for thread t's temporary file that no directory entry has.
mktemp_name(t) ==
    <<t, LowestFree({n[2] : n \in {m \in DOMAIN tmpnames : m[1] = t}})>>

\* tempfile.NamedTemporaryFile(dir=parent, prefix=".<name>.new", delete=False)
SaveMktemp(t) ==
    /\ pc[t] = "sv_mktemp"
    /\ \/ LET i == LowestFree(DOMAIN inode)
          IN  /\ tmpnames' = tmpnames @@ (mktemp_name(t) :> i)
              /\ inode' = inode @@ (i :> <<>>)
              /\ tmp_path' = [tmp_path EXCEPT ![t] = mktemp_name(t)]
              /\ pc' = [pc EXCEPT ![t] = "sv_write"]
              /\ UNCHANGED <<res, faults>>
       \/ \* the file cannot be created: tmp_path stays None
          /\ Fault
          /\ Goto(t, "fin_release", save_except("IOError"))
          /\ UNCHANGED <<tmpnames, inode, tmp_path>>
    /\ UNCHANGED <<dir, ofd, locks, argvars, fd, written, keys, obs, calls, histvars>>

\* The exception handlers of _save_data_to_file for an exception e raised
\* once the temporary file exists: MKTerminate and MKTimeout are re-raised as
\* they are; for every other exception the temporary file is unlinked.
SaveExcept(t, e) ==
    /\ Goto(t, "fin_release", save_except(e))
    /\ IF e \in Signals
       THEN UNCHANGED <<tmpnames, inode>>
       ELSE /\ tmpnames' = os_unlink_tmp(tmp_path[t])
            /\ inode' = Collect(inode, dir, tmpnames', ofd)

\* tmp.write(content) reaches the file in at most two blocks: Block(c, w) is
\* the one written when w bytes of c are in the file.
Half(c) == (Len(c) + 1) \div 2
Block(c, w) == IF w = 0 THEN SubSeq(c, 1, Half(c)) ELSE SubSeq(c, w + 1, Len(c))

\* A write that stops after the first block: the file is renamed incomplete.
SaveWrite_short(t) ==
    /\ pc[t] = "sv_write"
    /\ \/ /\ inode' = [inode EXCEPT ![tmpnames[tmp_path[t]]] =
                            @ \o Block(content[t], written[t])]
          /\ written' = [written EXCEPT ![t] = @ + Len(Block(content[t], written[t]))]
          /\ pc' = [pc EXCEPT ![t] = "sv_rename"]
          /\ UNCHANGED <<tmpnames, res, faults>>
       \/ /\ Fault
          /\ \E e \in {"IOError"} \cup Signals : SaveExcept(t, e)
          /\ UNCHANGED written
    /\ UNCHANGED <<dir, ofd, locks, argvars, fd, tmp_path, keys, obs, calls, histvars>>

\* tmp.write(content), one block per step; the file is closed after the last.
SaveWrite(t) ==
    /\ pc[t] = "sv_write"
    /\ \/ /\ inode' = [inode EXCEPT ![tmpnames[tmp_path[t]]] =
                            @ \o Block(content[t], written[t])]
          /\ written' = [written EXCEPT ![t] = @ + Len(Block(content[t], written[t]))]
          /\ pc' = [pc EXCEPT ![t] =
                        IF written'[t] = Len(content[t]) THEN "sv_rename" ELSE @]
          /\ UNCHANGED <<tmpnames, res, faults>>
       \/ /\ Fault
          /\ \E e \in {"IOError"} \cup Signals : SaveExcept(t, e)
          /\ UNCHANGED written
    /\ UNCHANGED <<dir, ofd, locks, argvars, fd, tmp_path, keys, obs, calls, histvars>>

\* A rename that has replaced the target when the failure is reported.
SaveRename_then_fail(t) ==
    /\ pc[t] = "sv_rename"
    /\ \/ /\ dir' = [dir EXCEPT ![path[t]] = tmpnames[tmp_path[t]]]
          /\ tmpnames' = os_unlink_tmp(tmp_path[t])
          /\ inode' = Collect(inode, dir', tmpnames', ofd)
          /\ Goto(t, "fin_release", "ok")
          /\ UNCHANGED faults
       \/ /\ Fault
          /\ dir' = [dir EXCEPT ![path[t]] = tmpnames[tmp_path[t]]]
          /\ tmpnames' = os_unlink_tmp(tmp_path[t])
          /\ inode' = Collect(inode, dir', tmpnames', ofd)
          /\ \E e \in {"IOError"} \cup Signals : Goto(t, "fin_release", save_except(e))
    /\ lastv' = [lastv EXCEPT ![path[t]] = arg[t].obj]
    /\ UNCHANGED <<ofd, locks, argvars, locvars, calls, saved, pre, atlock, nacq, undone,
                   retries>>

\* os.rename(tmp_path, path)
SaveRename(t) ==
    /\ pc[t] = "sv_rename"
    /\ \/ /\ dir' = [dir EXCEPT ![path[t]] = tmpnames[tmp_path[t]]]
          /\ tmpnames' = os_unlink_tmp(tmp_path[t])
          /\ inode' = Collect(inode, dir', tmpnames', ofd)
          /\ lastv' = [lastv EXCEPT ![path[t]] = arg[t].obj]
          /\ Goto(t, "fin_release", "ok")
          /\ UNCHANGED faults
       \/ /\ Fault
          /\ \E e \in {"IOError"} \cup Signals : SaveExcept(t, e)
          /\ UNCHANGED <<dir, lastv>>
    /\ UNCHANGED <<ofd, locks, argvars, locvars, calls, saved, pre, atlock, nacq, undone,
                   retries>>

\* --------------------------------------------------- _load_bytes_from_file
\* path.read_bytes(); FileNotFoundError gives b''.
read_bytes(p) == IF dir[Resolve(p)] = NoIno THEN <<>> ELSE inode[dir[Resolve(p)]]

\* What the public load functions make of the bytes read: the wrapper named by
\* a.fn decodes and parses them, and gives the default a.obj for no content.
PyErrors == {"TypeError", "UnicodeDecodeError", "SyntaxError"}
Raised(e) == Obj(e, <<>>, PyScalar(PyNone))

\* A load_text_from_file without its "or default".
load_text_no_default(a, bytes) ==
    LET text == decode(bytes)
    IN  IF ~text.ok THEN Raised("UnicodeDecodeError") ELSE TextObj(text.s)

load_bytes_from_file(a, bytes) == IF bytes = <<>> THEN a.obj ELSE BytesObj(bytes)

load_text_from_file(a, bytes) ==
    LET text == decode(bytes)
    IN  IF ~text.ok THEN Raised("UnicodeDecodeError")
        ELSE IF text.s = <<>> THEN a.obj ELSE TextObj(text.s)

load_object_from_file(a, bytes) ==
    LET text == decode(bytes)
        value == literal_eval(text.s)
    IN  IF ~text.ok THEN Raised("UnicodeDecodeError")
        ELSE IF text.s = <<>> THEN a.obj
        ELSE IF value.ok THEN ValueObj(value.val) ELSE Raised("SyntaxError")

LoadResult(a, bytes) ==
    CASE a.fn = "load_bytes_from_file" -> load_bytes_from_file(a, bytes)
      [] a.fn = "load_text_from_file" -> load_text_from_file(a, bytes)
      [] a.fn = "load_object_from_file" -> load_object_from_file(a, bytes)
      [] OTHER -> BytesObj(bytes)

\* How the call ends once _load_bytes_from_file has returned the bytes.
load_res(a, bytes) ==
    IF LoadResult(a, bytes).kind \in PyErrors THEN LoadResult(a, bytes).kind ELSE "ok"

\* A load that releases the lock after a successful read as well.
LoadRead_releasing(t) ==
    /\ pc[t] = "ld_read"
    /\ \/ /\ obs' = [obs EXCEPT ![t] = read_bytes(path[t])]
          /\ Goto(t, "done", load_res(arg[t], read_bytes(path[t])))
          /\ IF lock[t] THEN release_lock(t, path[t])
             ELSE UNCHANGED <<ofd, inode, locks, nacq, undone>>
          /\ UNCHANGED faults
       \/ /\ Fault
          /\ \E e \in {"IOError"} \cup Signals : Goto(t, "done", save_except(e))
          /\ IF lock[t] THEN release_lock(t, path[t])
             ELSE UNCHANGED <<ofd, inode, locks, nacq, undone>>
          /\ UNCHANGED obs
    /\ UNCHANGED <<dir, tmpnames, argvars, fd, tmp_path, written, keys, calls, saved, pre,
                   atlock, retries, lastv>>

LoadRead(t) ==
    /\ pc[t] = "ld_read"
    /\ \/ /\ obs' = [obs EXCEPT ![t] = read_bytes(path[t])]
          /\ Goto(t, "done", load_res(arg[t], read_bytes(path[t])))
          /\ UNCHANGED <<ofd, inode, locks, nacq, undone, faults>>
       \/ \* the read raises: release_lock if lock, then raise
          /\ Fault
          /\ \E e \in {"IOError"} \cup Signals : Goto(t, "done", save_except(e))
          /\ IF lock[t] THEN release_lock(t, path[t])
             ELSE UNCHANGED <<ofd, inode, locks, nacq, undone>>
          /\ UNCHANGED obs
    /\ UNCHANGED <<dir, tmpnames, argvars, fd, tmp_path, written, keys, calls, saved, pre,
                   atlock, retries, lastv>>

\* ------------------------------------------------------------ load_mk_file
\* exec(f.read(), globals(), default) on the contents there are here: it runs
\* through for no statement at all and for an expression statement that is a
\* literal, and raises for everything else (bytes that are not UTF-8, a NUL, a
\* name that is not defined).
exec_ok(bytes) ==
    LET text == decode(bytes)
    IN  /\ text.ok
        /\ \/ SkipWs(text.s, 1) > Len(text.s)
           \/ literal_eval(text.s).ok

\* "if default is None: raise MKGeneralException", before anything else.
LoadMkCheck(t) ==
    /\ pc[t] = "mk_check"
    /\ IF arg[t].obj = NoObj
       THEN Goto(t, "done", "MKGeneralException")
       ELSE /\ pc' = [pc EXCEPT ![t] = IF lock[t] THEN "aq_open" ELSE "mk_read"]
            /\ UNCHANGED res
    /\ UNCHANGED <<osvars, locks, argvars, fd, tmp_path, written, keys, obs, calls, faults,
                   histvars>>

\* path.open, f.read and exec: an absent file is passed over (ENOENT), every
\* other exception becomes MKGeneralException, MKTerminate and MKTimeout are
\* re-raised; no branch releases the lock.
LoadMkRead(t) ==
    /\ pc[t] = "mk_read"
    /\ \/ /\ obs' = [obs EXCEPT ![t] = read_bytes(path[t])]
          /\ Goto(t, "done", IF exec_ok(read_bytes(path[t])) THEN "ok"
                             ELSE "MKGeneralException")
          /\ UNCHANGED faults
       \/ /\ Fault
          /\ \E e \in {"IOError"} \cup Signals : Goto(t, "done", save_except(e))
          /\ UNCHANGED obs
    /\ UNCHANGED <<osvars, locks, argvars, fd, tmp_path, written, keys, calls, histvars>>

\* ------------------------------------------------------------ the calls
Start(t, f, p, b, l, c, a, at) ==
    /\ pc[t] = "idle"
    /\ calls' = calls + 1
    /\ op' = [op EXCEPT ![t] = f]
    /\ path' = [path EXCEPT ![t] = p]
    /\ blocking' = [blocking EXCEPT ![t] = b]
    /\ lock' = [lock EXCEPT ![t] = l]
    /\ content' = [content EXCEPT ![t] = c]
    /\ arg' = [arg EXCEPT ![t] = a]
    /\ pc' = [pc EXCEPT ![t] = at]
    /\ UNCHANGED <<osvars, locks, fd, tmp_path, written, res, obs, faults, nacq, undone,
                   retries, lastv>>

CallAquire(t) ==
    /\ \E p \in Paths : Start(t, "aquire_lock", p, TRUE, FALSE, <<>>, PlainArg("aquire_lock"), "aq_open")
    /\ UNCHANGED <<keys, saved, pre, atlock>>

CallTryAquire(t) ==
    /\ \E p \in Paths : Start(t, "try_aquire_lock", p, FALSE, FALSE, <<>>, PlainArg("try_aquire_lock"), "aq_open")
    /\ UNCHANGED <<keys, saved, pre, atlock>>

CallRelease(t) ==
    /\ \E p \in Paths : Start(t, "release_lock", p, TRUE, FALSE, <<>>, PlainArg("release_lock"), "rel")
    /\ UNCHANGED <<keys, saved, pre, atlock>>

CallReleaseAll(t) ==
    /\ Start(t, "release_all_locks", "p", TRUE, FALSE, <<>>, PlainArg("release_all_locks"), "ra_loop")
    /\ keys' = [keys EXCEPT ![t] = _get_lock_keys(t)]
    /\ UNCHANGED <<saved, pre, atlock>>

CallLocked(t) ==
    /\ \E p \in Paths : Start(t, "locked", p, TRUE, FALSE, <<>>, PlainArg("locked"), "aq_open")
    /\ UNCHANGED <<keys, saved, pre, atlock>>

CallTryLocked(t) ==
    /\ \E p \in Paths : Start(t, "try_locked", p, FALSE, FALSE, <<>>, PlainArg("try_locked"), "aq_open")
    /\ UNCHANGED <<keys, saved, pre, atlock>>

CallSave(t) ==
    /\ \E p \in Paths, c \in Contents(t) :
          /\ Start(t, "_save_data_to_file", p, TRUE, FALSE, c,
                   PlainArg("_save_data_to_file"), "aq_open")
          /\ saved' = [saved EXCEPT ![p] = @ \cup {c}]
          /\ pre' = [pre EXCEPT ![t] = FileAt(p)]
    /\ UNCHANGED <<keys, atlock>>

CallLoad(t) ==
    /\ \E p \in Paths, l \in BOOLEAN :
          Start(t, "_load_bytes_from_file", p, TRUE, l, <<>>,
                PlainArg("_load_bytes_from_file"), IF l THEN "aq_open" ELSE "ld_read")
    /\ UNCHANGED <<keys, saved, pre, atlock>>

\* The data the public save and load functions are called with.
Values ==
    {PyScalar(PyStr(<<228, SQuote>>)), PyTuple(<<PyInt(-1)>>),
     PyDict(<<PyInt(2), PyNone, PyInt(1), PyBool(TRUE)>>)}
Texts == {TextObj(<<>>), TextObj(<<228>>)}
Blobs == {BytesObj(<<>>), BytesObj(<<255>>)}
Defaults == {NoObj, ValueObj(PyList(<<>>))}

\* save_object_to_file: repr or pprint.pformat, a newline, save_file.
formatted_data(v, pretty) == IF pretty THEN pformat(v) ELSE repr(v)

CallSaveObject(t) ==
    /\ \E p \in Paths, v \in Values, pretty \in BOOLEAN :
          LET c == ensure_binary(TextObj(formatted_data(v, pretty) \o <<Newline>>))
          IN  /\ Start(t, "_save_data_to_file", p, TRUE, FALSE, c,
                       [fn |-> "save_object_to_file", obj |-> ValueObj(v),
                        pretty |-> pretty], "aq_open")
              /\ saved' = [saved EXCEPT ![p] = @ \cup {c}]
              /\ pre' = [pre EXCEPT ![t] = FileAt(p)]
    /\ UNCHANGED <<keys, atlock>>

\* save_text_to_file and save_bytes_to_file, given text or bytes.
CallSaveText(t) ==
    /\ \E p \in Paths, o \in Texts \cup Blobs :
          Start(t, "_save_data_to_file", p, TRUE, FALSE, ensure_binary(o),
                [fn |-> "save_text_to_file", obj |-> o, pretty |-> FALSE], "sv_type")
    /\ UNCHANGED <<keys, saved, pre, atlock>>

CallSaveBytes(t) ==
    /\ \E p \in Paths, o \in Texts \cup Blobs :
          Start(t, "_save_data_to_file", p, TRUE, FALSE, ensure_binary(o),
                [fn |-> "save_bytes_to_file", obj |-> o, pretty |-> FALSE], "sv_type")
    /\ UNCHANGED <<keys, saved, pre, atlock>>

\* The isinstance test of the two: the kind of content each one takes.
Takes == [save_text_to_file |-> "text", save_bytes_to_file |-> "bytes"]

\* A save_text_to_file / save_bytes_to_file without its isinstance test.
SaveTypeCheck_unchecked(t) ==
    /\ pc[t] = "sv_type"
    /\ pc' = [pc EXCEPT ![t] = "aq_open"]
    /\ saved' = [saved EXCEPT ![path[t]] = @ \cup {content[t]}]
    /\ pre' = [pre EXCEPT ![t] = FileAt(path[t])]
    /\ UNCHANGED <<osvars, locks, argvars, fd, tmp_path, written, keys, res, obs, calls,
                   faults, atlock, nacq, undone, retries, lastv>>

SaveTypeCheck(t) ==
    /\ pc[t] = "sv_type"
    /\ IF arg[t].obj.kind # Takes[arg[t].fn]
       THEN /\ Goto(t, "done", "TypeError")
            /\ UNCHANGED <<saved, pre>>
       ELSE /\ pc' = [pc EXCEPT ![t] = "aq_open"]
            /\ saved' = [saved EXCEPT ![path[t]] = @ \cup {content[t]}]
            /\ pre' = [pre EXCEPT ![t] = FileAt(path[t])]
            /\ UNCHANGED res
    /\ UNCHANGED <<osvars, locks, argvars, fd, tmp_path, written, keys, obs, calls, faults,
                   atlock, nacq, undone, retries, lastv>>

\* load_bytes_from_file, load_text_from_file, load_object_from_file
CallLoadWith(t) ==
    /\ \E p \in Paths, l \in BOOLEAN, d \in Defaults,
          f \in {"load_bytes_from_file", "load_text_from_file", "load_object_from_file"} :
          Start(t, "_load_bytes_from_file", p, TRUE, l, <<>>,
                [fn |-> f, obj |-> d, pretty |-> FALSE],
                IF l THEN "aq_open" ELSE "ld_read")
    /\ UNCHANGED <<keys, saved, pre, atlock>>

\* The lock calls with a path in any of its spellings.
CallAquireAs(t) ==
    /\ \E n \in Names : Start(t, "aquire_lock", n, TRUE, FALSE, <<>>,
                               PlainArg("aquire_lock"), "aq_open")
    /\ UNCHANGED <<keys, saved, pre, atlock>>

CallTryAquireAs(t) ==
    /\ \E n \in Names : Start(t, "try_aquire_lock", n, FALSE, FALSE, <<>>,
                               PlainArg("try_aquire_lock"), "aq_open")
    /\ UNCHANGED <<keys, saved, pre, atlock>>

CallReleaseAs(t) ==
    /\ \E n \in Names : Start(t, "release_lock", n, TRUE, FALSE, <<>>,
                               PlainArg("release_lock"), "rel")
    /\ UNCHANGED <<keys, saved, pre, atlock>>

\* with lock_checkmk_configuration(): ...
CallLockConfig(t) ==
    /\ Start(t, "lock_checkmk_configuration", configuration_lockfile, TRUE, FALSE, <<>>,
             PlainArg("lock_checkmk_configuration"), "aq_open")
    /\ UNCHANGED <<keys, saved, pre, atlock>>

\* load_mk_file, with the dictionary to merge the file into or with None.
CallLoadMk(t) ==
    /\ \E p \in Paths, l \in BOOLEAN, d \in {NoObj, ValueObj(PyDict(<<>>))} :
          Start(t, "load_mk_file", p, TRUE, l, <<>>,
                [fn |-> "load_mk_file", obj |-> d, pretty |-> FALSE], "mk_check")
    /\ UNCHANGED <<keys, saved, pre, atlock>>

\* The call is over: its arguments and locals are gone.
Return(t) ==
    /\ pc[t] = "done"
    /\ pc' = [pc EXCEPT ![t] = "idle"]
    /\ op' = [op EXCEPT ![t] = "none"]
    /\ path' = [path EXCEPT ![t] = "p"]
    /\ blocking' = [blocking EXCEPT ![t] = TRUE]
    /\ lock' = [lock EXCEPT ![t] = FALSE]
    /\ content' = [content EXCEPT ![t] = <<>>]
    /\ tmp_path' = [tmp_path EXCEPT ![t] = NoTmp]
    /\ written' = [written EXCEPT ![t] = 0]
    /\ res' = [res EXCEPT ![t] = "none"]
    /\ obs' = [obs EXCEPT ![t] = <<>>]
    /\ pre' = [pre EXCEPT ![t] = Unset]
    /\ atlock' = [atlock EXCEPT ![t] = Unset]
    /\ undone' = [undone EXCEPT ![t] = 0]
    /\ retries' = [retries EXCEPT ![t] = 0]
    /\ arg' = [arg EXCEPT ![t] = PlainArg("none")]
    /\ UNCHANGED <<osvars, locks, fd, keys, calls, faults, saved, nacq, lastv>>

\* A caller's cycle: load the path with lock=True, then save a value derived
\* from what was loaded.  The value is what was loaded with the caller's mark
\* appended.
Derive(bytes, t) == bytes \o <<t>>

CallCycle(t) ==
    /\ \E p \in Paths :
          Start(t, "_load_bytes_from_file", p, TRUE, TRUE, <<>>, PlainArg("cycle"), "aq_open")
    /\ UNCHANGED <<keys, saved, pre, atlock>>

\* The load of thread t's cycle has returned the bytes of the file.
CycleLoaded(t) ==
    /\ pc[t] = "done"
    /\ arg[t].fn = "cycle"
    /\ op[t] = "_load_bytes_from_file"
    /\ res[t] = "ok"

\* The load has returned and the caller goes on to the save; what was loaded
\* stays with the caller.
CycleSave(t) ==
    /\ CycleLoaded(t)
    /\ op' = [op EXCEPT ![t] = "_save_data_to_file"]
    /\ lock' = [lock EXCEPT ![t] = FALSE]
    /\ content' = [content EXCEPT ![t] = Derive(obs[t], t)]
    /\ pc' = [pc EXCEPT ![t] = "aq_open"]
    /\ res' = [res EXCEPT ![t] = "none"]
    /\ saved' = [saved EXCEPT ![path[t]] = @ \cup {Derive(obs[t], t)}]
    /\ pre' = [pre EXCEPT ![t] = FileAt(path[t])]
    /\ atlock' = [atlock EXCEPT ![t] = Unset]
    /\ undone' = [undone EXCEPT ![t] = 0]
    /\ retries' = [retries EXCEPT ![t] = 0]
    /\ UNCHANGED <<osvars, locks, path, blocking, arg, fd, tmp_path, written, keys, obs,
                   calls, faults, nacq, lastv>>

\* The cycle is over: after the save, or after a load that has failed.
CycleReturn(t) == ~CycleLoaded(t) /\ Return(t)

\* The lock manager alone: every function of the "File locking" section.
NextLocks ==
    \E t \in Threads :
        \/ /\ calls < MaxLockCalls
           /\ \/ CallAquire(t)
              \/ CallTryAquire(t)
              \/ CallRelease(t)
              \/ CallReleaseAll(t)
              \/ CallLocked(t)
              \/ CallTryLocked(t)
        \/ AqOpen(t)
        \/ AqFlock(t)
        \/ AqReopen(t)
        \/ Release(t)
        \/ FinRelease(t)
        \/ ReleaseAll(t)
        \/ Body(t)
        \/ Return(t)

SpecLocks == Init /\ [][NextLocks]_vars

\* Loads and atomic saves, with the lock calls their callers make around them.
NextStore ==
    \E t \in Threads :
        \/ /\ calls < MaxStoreCalls
           /\ \/ CallSave(t)
              \/ CallLoad(t)
              \/ CallAquire(t)
              \/ CallTryAquire(t)
              \/ CallRelease(t)
              \/ CallReleaseAll(t)
        \/ AqOpen(t)
        \/ AqFlock(t)
        \/ AqReopen(t)
        \/ Release(t)
        \/ FinRelease(t)
        \/ ReleaseAll(t)
        \/ SaveMktemp(t)
        \/ SaveWrite(t)
        \/ SaveRename(t)
        \/ LoadRead(t)
        \/ Return(t)

SpecStore == Init /\ [][NextStore]_vars

\* The public save and load functions, with their typed arguments and results.
NextFacade ==
    \E t \in Threads :
        \/ /\ calls < MaxFacadeCalls
           /\ \/ CallSaveObject(t)
              \/ CallSaveText(t)
              \/ CallSaveBytes(t)
              \/ CallLoadWith(t)
              \/ CallLoadMk(t)
        \/ SaveTypeCheck(t)
        \/ LoadMkCheck(t)
        \/ LoadMkRead(t)
        \/ AqOpen(t)
        \/ AqFlock(t)
        \/ AqReopen(t)
        \/ FinRelease(t)
        \/ SaveMktemp(t)
        \/ SaveWrite(t)
        \/ SaveRename(t)
        \/ LoadRead(t)
        \/ Return(t)

SpecFacade == Init /\ [][NextFacade]_vars

\* The lock calls, each with a path in any of its spellings.
NextNames ==
    \E t \in Threads :
        \/ /\ calls < MaxNameCalls
           /\ \/ CallAquireAs(t)
              \/ CallTryAquireAs(t)
              \/ CallReleaseAs(t)
        \/ AqOpen(t)
        \/ AqFlock(t)
        \/ AqReopen(t)
        \/ Release(t)
        \/ Return(t)

SpecNames == Init /\ [][NextNames]_vars

\* The configuration lock, beside plain lock calls on the same paths.
NextConfig ==
    \E t \in Threads :
        \/ /\ calls < MaxConfigCalls
           /\ \/ CallLockConfig(t)
              \/ CallAquire(t)
              \/ CallRelease(t)
        \/ AqOpen(t)
        \/ AqFlock(t)
        \/ AqReopen(t)
        \/ Release(t)
        \/ FinRelease(t)
        \/ Body(t)
        \/ Return(t)

SpecConfig == Init /\ [][NextConfig]_vars

\* Callers that all run the cycle of a locking load and a save.
NextCycle ==
    \E t \in Threads :
        \/ calls < MaxCycles /\ CallCycle(t)
        \/ CycleSave(t)
        \/ AqOpen(t)
        \/ AqFlock(t)
        \/ AqReopen(t)
        \/ FinRelease(t)
        \/ LoadRead(t)
        \/ SaveMktemp(t)
        \/ SaveWrite(t)
        \/ SaveRename(t)
        \/ CycleReturn(t)

SpecCycle == Init /\ [][NextCycle]_vars

\* A blocking aquire_lock that races with atomic saves of the same path.  A
\* thread that has started a call is scheduled again and again until the call
\* has returned; nothing makes a thread start a call.
NextRace ==
    \E t \in Threads :
        \/ /\ calls < MaxRaceCalls
           /\ \/ CallAquire(t)
              \/ CallSave(t)
              \/ CallRelease(t)
        \/ AqOpen(t)
        \/ AqFlock(t)
        \/ AqReopen(t)
        \/ Release(t)
        \/ FinRelease(t)
        \/ SaveMktemp(t)
        \/ SaveWrite(t)
        \/ SaveRename(t)
        \/ Return(t)

Run(t) ==
    \/ AqOpen(t)
    \/ AqFlock(t)
    \/ AqReopen(t)
    \/ Release(t)
    \/ FinRelease(t)
    \/ SaveMktemp(t)
    \/ SaveWrite(t)
    \/ SaveRename(t)
    \/ Return(t)

SpecRace == Init /\ [][NextRace]_vars /\ \A t \in Threads : WF_vars(Run(t))

\* ================================================================ claims

\* Threads whose registry contains path p.
Holders(p) == {t \in Threads : have_lock(t, p)}

\* C1: mutual exclusion per path: in every reachable state at most one
\* thread's registry contains p (between one thread's successful acquisition
\* of p and its release no other thread's acquisition of p succeeds).
C1_MutualExclusion == \A p \in Paths : Cardinality(Holders(p)) <= 1

\* What res holds when a call has raised, or try_aquire_lock has returned False.
Exceptions ==
    {"IOError", "EAGAIN", "MKGeneralException", "BodyError", "False"} \cup Signals
        \cup PyErrors \cup {"MKConfigLockTimeout"}

\* Entries of thread t's registry for path p.
Entries(t, p) == {i \in 1..Len(Reg(t)) : Reg(t)[i].name = p}

\* Descriptors opened by thread t that hold the flock on the file p names.
FlocksOn(t, p) ==
    {f \in DOMAIN ofd : ofd[f].owner = t /\ ofd[f].lk /\ ofd[f].ino = dir[p]}

\* However often thread t has acquired p, its registry has one entry for p,
\* with an open descriptor, and that descriptor is the thread's only flock on p.
C2_OneDescriptor ==
    \A t \in Threads, p \in Paths :
        nacq[t][p] >= 1 =>
            /\ Cardinality(Entries(t, p)) = 1
            /\ _get_lock(t, p) \in DOMAIN ofd
            /\ {f \in DOMAIN ofd : /\ ofd[f].owner = t /\ ofd[f].lk
                                   /\ ofd[f].ino = ofd[_get_lock(t, p)].ino}
                   = {_get_lock(t, p)}

\* aquire_lock by a thread that holds the path returns successfully and neither
\* opens a descriptor nor changes a lock or a registry.
C2_ReentryStep ==
    \A t \in Threads :
        (pc[t] = "aq_open" /\ have_lock(t, path[t]) /\ pc'[t] # "aq_open") =>
            /\ ofd' = ofd
            /\ locks' = locks
            /\ res'[t] \notin Exceptions
            /\ pc'[t] \in {"done", "body", "sv_mktemp", "ld_read"}
            /\ nacq'[t][path[t]] = nacq[t][path[t]] + 1

\* One release_lock undoes every acquisition: the registry lacks the path and
\* no descriptor of the thread holds the flock on it.
C2_SingleRelease ==
    \A t \in Threads :
        (pc[t] = "done" /\ op[t] = "release_lock" /\ undone[t] >= 1) =>
            /\ ~have_lock(t, path[t])
            /\ FlocksOn(t, path[t]) = {}

\* C2: re-entrancy is non-counting: acquiring a path the thread holds
\* succeeds without a second descriptor or OS lock, the thread has exactly one
\* descriptor for the path, and one release_lock unlocks it fully however often
\* it was acquired.
C2_Reentrancy ==
    /\ [](C2_OneDescriptor /\ C2_SingleRelease)
    /\ [][C2_ReentryStep]_vars

\* A release_lock has returned that undid two acquisitions at once.
C2_Witness ==
    \E t \in Threads : pc[t] = "done" /\ op[t] = "release_lock" /\ undone[t] >= 2

\* The paths that hold content from the start.
Existing == {p \in Paths : p = "p"}

\* The complete contents a reader of p may see: the initial one and all those
\* for which a save to p has been called.
Complete(p) == {InitContent} \cup saved[p]

\* C3: atomic visibility: for a path that holds content, at every step of
\* concurrent atomic saves the path names one complete content that was saved
\* to it or that it held before, and every load of it has read such a
\* content: never a partial prefix, never an empty file.
C3_AtomicVisibility ==
    /\ \A p \in Existing : read_bytes(p) \in Complete(p)
    /\ \A t \in Threads :
          (/\ pc[t] = "done" /\ op[t] = "_load_bytes_from_file" /\ res[t] = "ok"
           /\ path[t] \in Existing)
          => obs[t] \in Complete(path[t])

\* A load of p has returned while another thread's save of p has written one
\* of the two blocks of its temporary file.
C3_Witness ==
    \E t, u \in Threads :
        /\ t # u
        /\ pc[t] = "done" /\ op[t] = "_load_bytes_from_file" /\ res[t] = "ok"
        /\ path[t] = "p" /\ path[u] = "p"
        /\ op[u] = "_save_data_to_file" /\ pc[u] = "sv_write" /\ written[u] = 1
        /\ inode[tmpnames[tmp_path[u]]] = <<u>>

\* A save by thread t has failed after it created its temporary file and
\* before its rename.
AbortedSave(t) ==
    /\ pc[t] = "done" /\ op[t] = "_save_data_to_file"
    /\ res[t] \in Exceptions
    /\ tmp_path[t] # NoTmp

\* The step with which thread t's call returns or raises to its caller.
Returns(t) == pc[t] # "done" /\ pc'[t] = "done"

\* C4 as stated: when an aborted save returns, the path has exactly the
\* content it had before the call, and a path that did not exist before the
\* call still does not exist.
C4_TargetAsBeforeCall ==
    [][\A t \in Threads :
          (Returns(t) /\ AbortedSave(t)') => FileAt(path[t])' = pre'[t]]_vars

\* C4 as amended: when an aborted save returns, the path has exactly the
\* content it had when the call had acquired the lock on it; that is the
\* content from before the call when no other save was called for the path,
\* and a path that did not exist before the call exists now and does not hold
\* the content of the aborted save (aquire_lock created it with 0 bytes).
C4_TargetAsWhenLocked ==
    [][\A t \in Threads :
          (Returns(t) /\ AbortedSave(t)') =>
              /\ FileAt(path[t])' = atlock'[t]
              /\ dir'[path[t]] # NoIno
              /\ pre'[t] = Absent => FileAt(path[t])' # content'[t]
              /\ pre'[t] = Absent /\ saved'[path[t]] = {content[t]}
                    => FileAt(path[t])' = <<>>
              /\ pre'[t] # Absent /\ saved'[path[t]] = {content[t]}
                    => FileAt(path[t])' = pre'[t]]_vars

\* An aborted save of a path that did not exist before the call: the path
\* now names the empty file.
C4_Witness ==
    \E t \in Threads : AbortedSave(t) /\ pre[t] = Absent /\ FileAt(path[t]) = <<>>

\* C5: no orphaned temporary file: when a save that has not completed its
\* rename returns to its caller (an I/O error, or a re-raised MKTerminate or
\* MKTimeout), the temporary file it created has been deleted.
C5_NoOrphanedTemp ==
    \A t \in Threads :
        (pc[t] = "done" /\ op[t] = "_save_data_to_file" /\ res[t] # "ok")
            => tmp_path[t] \notin DOMAIN tmpnames

\* The part of C5 that the code keeps: after an ordinary I/O error the
\* temporary file is gone.
C5_NoOrphanAfterIOError ==
    \A t \in Threads :
        (pc[t] = "done" /\ op[t] = "_save_data_to_file"
         /\ res[t] = "MKGeneralException")
            => tmp_path[t] \notin DOMAIN tmpnames

\* C6: the atomic save always ends unlocked: when _save_data_to_file has
\* returned or raised, the calling thread's registry lacks the path and no
\* descriptor of the thread holds the flock on the file the path names, also
\* when the thread held the path before the call.
C6_SaveEndsUnlocked ==
    \A t \in Threads :
        (pc[t] = "done" /\ op[t] = "_save_data_to_file") =>
            /\ ~have_lock(t, path[t])
            /\ FlocksOn(t, path[t]) = {}

\* The part of C6 that the code keeps: the registry lacks the path, and a flock
\* is left only by a call whose aquire_lock failed.
C6_RegistryReleased ==
    \A t \in Threads :
        (pc[t] = "done" /\ op[t] = "_save_data_to_file") =>
            /\ ~have_lock(t, path[t])
            /\ FlocksOn(t, path[t]) # {} =>
                  (res[t] = "MKGeneralException" /\ tmp_path[t] = NoTmp)

\* The scoped helpers.
Scoped == {"locked", "try_locked"}

\* Thread t takes the step.
Steps(t) == <<pc[t], keys[t], res[t], fd[t]>> # <<pc'[t], keys'[t], res'[t], fd'[t]>>

\* The registry and the descriptors of every thread but t are as before the step.
OthersUntouched(t) ==
    \A u \in Threads \ {t} :
        /\ locks'[u] = locks[u]
        /\ \A f \in DOMAIN ofd :
              ofd[f].owner = u => (f \in DOMAIN ofd' /\ ofd'[f] = ofd[f])

\* C7: scoped acquisition releases on every exit path: when a locked(p) or
\* try_locked(p) block has been left (body finished, body raised, or the
\* acquisition failed), the calling thread's registry lacks p and no descriptor
\* of the thread holds the flock on the file p names.
C7_ScopedRelease ==
    \A t \in Threads :
        (pc[t] = "done" /\ op[t] \in Scoped) =>
            /\ ~have_lock(t, path[t])
            /\ FlocksOn(t, path[t]) = {}

\* The part of C7 that the code keeps: the registry lacks p, a flock is left
\* only when an aquire_lock has failed, and no step of a scoped call touches the
\* locks of another thread.
C7_RegistryReleased ==
    \A t \in Threads :
        (pc[t] = "done" /\ op[t] \in Scoped) =>
            /\ ~have_lock(t, path[t])
            /\ FlocksOn(t, path[t]) # {} => faults > 0

C7_OthersUntouched ==
    [][\A t \in Threads : (op[t] \in Scoped /\ Steps(t)) => OthersUntouched(t)]_vars

\* A successful load with lock=True of a path the thread did not hold before.
LoadedWithLock(t) ==
    /\ pc[t] = "done"
    /\ op[t] = "_load_bytes_from_file"
    /\ lock[t]
    /\ res[t] = "ok"
    /\ nacq[t][path[t]] <= 1

\* C8: a locking load holds the lock only while reading: after a successful
\* load with lock=True of a path the thread did not hold before, the thread no
\* longer holds the lock (have_lock is False and no descriptor of the thread
\* holds the flock on the file).
C8_LoadReleasesLock ==
    \A t \in Threads :
        LoadedWithLock(t) =>
            /\ ~have_lock(t, path[t])
            /\ FlocksOn(t, path[t]) = {}

\* C8, as the code has it: after a successful load with lock=True the thread
\* still holds the lock: have_lock is True and the recorded descriptor is open
\* and holds the flock, so that no other thread holds a flock on that file;
\* the load releases the lock only when the read has raised.
C8_LoadKeepsLock ==
    \A t \in Threads :
        /\ LoadedWithLock(t) =>
              /\ have_lock(t, path[t])
              /\ _get_lock(t, path[t]) \in DOMAIN ofd
              /\ ofd[_get_lock(t, path[t])].lk
              /\ ofd[_get_lock(t, path[t])].owner = t
              /\ \A f \in DOMAIN ofd :
                    (ofd[f].lk /\ ofd[f].ino = ofd[_get_lock(t, path[t])].ino)
                        => f = _get_lock(t, path[t])
        /\ (pc[t] = "done" /\ op[t] = "_load_bytes_from_file" /\ lock[t]
            /\ res[t] # "ok") => ~have_lock(t, path[t])

\* A locking load of p has returned its content while the other thread waits
\* for the lock the load has left behind.
C8_Witness ==
    \E t \in Threads, u \in Threads :
        /\ LoadedWithLock(t)
        /\ nacq[t][path[t]] = 1
        /\ obs[t] # <<>>
        /\ u # t
        /\ pc[u] = "aq_flock"
        /\ fd[u] \in DOMAIN ofd
        /\ ofd[fd[u]].ino = ofd[_get_lock(t, path[t])].ino

\* have_lock(p) in thread t is True exactly when t has acquired p and not
\* released it.
C9_OwnAcquisitions ==
    \A t \in Threads, p \in Paths : have_lock(t, p) <=> nacq[t][p] > 0

\* A step of release_lock or release_all_locks in thread t leaves the
\* registries and descriptors of the other threads alone, and changes nothing
\* at all when t does not hold the path it releases.
C9_ReleaseFrame ==
    \A t \in Threads :
        (pc[t] \in {"rel", "ra_loop"} /\ Steps(t)) =>
            /\ OthersUntouched(t)
            /\ (pc[t] = "rel" /\ ~have_lock(t, path[t])) =>
                  (locks' = locks /\ ofd' = ofd /\ inode' = inode /\ res'[t] = "ok")
            /\ (pc[t] = "ra_loop" /\ Reg(t) = <<>>) =>
                  (locks' = locks /\ ofd' = ofd /\ inode' = inode /\ res'[t] = "ok")

\* C9: the registry is thread-local: have_lock(p) in thread T is True exactly
\* when T itself acquired p and has not released it; release_lock(p) and
\* release_all_locks() of a thread that does not hold p are no-ops and leave
\* every other thread's registry, descriptors and OS locks unchanged.
C9_ThreadLocal == []C9_OwnAcquisitions /\ [][C9_ReleaseFrame]_vars

\* A release_lock(p) has returned in a thread that did not hold p while the
\* other thread holds p.
C9_Witness ==
    \E t \in Threads, u \in Threads :
        /\ pc[t] = "done" /\ op[t] = "release_lock" /\ undone[t] = 0
        /\ u # t
        /\ have_lock(u, path[t])
        /\ FlocksOn(u, path[t]) # {}

\* The elements of a sequence.
Range(s) == {s[i] : i \in DOMAIN s}

\* While release_all_locks runs, every path still in the registry is still in
\* its list of keys; when it has returned the registry is empty and the call
\* has not failed.
C10_AllListed ==
    \A t \in Threads :
        /\ (pc[t] = "ra_loop") => Range(_get_lock_keys(t)) \subseteq Range(keys[t])
        /\ (pc[t] = "done" /\ op[t] = "release_all_locks") =>
              (Reg(t) = <<>> /\ res[t] = "ok")

\* Each turn of the loop closes the descriptor recorded for the key it takes;
\* a release_all_locks of a thread that holds nothing changes nothing.
C10_LoopStep ==
    \A t \in Threads :
        (pc[t] = "ra_loop" /\ Steps(t)) =>
            /\ (keys[t] # <<>> /\ have_lock(t, Head(keys[t]))) =>
                  /\ _get_lock(t, Head(keys[t])) \notin DOMAIN ofd'
                  /\ \A i \in 1..Len(locks'[t]) : locks'[t][i].name # Head(keys[t])
            /\ Reg(t) = <<>> => (locks' = locks /\ ofd' = ofd /\ inode' = inode)

\* C10: release_all_locks releases everything and is idempotent: after it
\* returns the thread's registry is empty and every descriptor it had recorded
\* is closed; called again, or by a thread that holds nothing, it changes
\* nothing and does not fail.
C10_ReleaseAll == []C10_AllListed /\ [][C10_LoopStep]_vars

\* release_all_locks has released the first of two paths the thread held and
\* is about to release the second.
C10_Witness ==
    \E t \in Threads :
        /\ pc[t] = "ra_loop"
        /\ undone[t] > 0
        /\ Len(keys[t]) = 1
        /\ have_lock(t, Head(keys[t]))

\* The program points inside aquire_lock.
AqStates == {"aq_open", "aq_flock", "aq_reopen"}

\* A blocking aquire_lock of thread t is pending.
Pending(t) == pc[t] \in AqStates /\ blocking[t]

\* No other descriptor holds the flock on the file thread t's aquire_lock has
\* open: whoever held it has released it.
LockFree(t) == fd[t] \in DOMAIN ofd => ~flock_busy(ofd, fd[t])

\* The aquire_lock of thread t has returned with the path in the registry.
Acquired(t) == pc[t] \notin AqStates /\ have_lock(t, path[t])

\* The aquire_lock of thread t has been ended by an I/O error or a signal.
Aborted(t) == pc[t] \notin AqStates /\ res[t] \in Exceptions

\* C11: rename-race convergence: the path is replaced finitely often (the
\* calls are bounded); if the lock on the file a pending blocking aquire_lock
\* waits for is released again and again, the acquisition eventually returns
\* with the path recorded in the caller's registry, unless an I/O error or a
\* signal ends it.
C11_Convergence ==
    \A t \in Threads :
        ([]<>LockFree(t)) => (Pending(t) ~> (Acquired(t) \/ Aborted(t)))

\* An acquisition has returned with the path recorded after it had found a
\* descriptor stale, the path having been replaced while it waited.
C11_Witness ==
    \E t \in Threads :
        /\ op[t] = "aquire_lock"
        /\ pc[t] = "done"
        /\ res[t] = "ok"
        /\ retries[t] >= 1
        /\ have_lock(t, path[t])

\* The step in which a fresh acquisition succeeds: the descriptor the thread
\* has locked is recorded for the path, is open, holds the flock, and refers to
\* the file the path names.
C12_FreshAcquisition ==
    \A t \in Threads :
        (pc[t] = "aq_reopen" /\ pc'[t] \notin AqStates /\ res'[t] \notin Exceptions) =>
            /\ \E i \in 1..Len(locks'[t]) :
                  locks'[t][i] = [name |-> path[t], fd |-> fd[t]]
            /\ fd[t] \in DOMAIN ofd'
            /\ ofd'[fd[t]].lk
            /\ ofd'[fd[t]].owner = t
            /\ ofd'[fd[t]].ino = dir'[path[t]]
            /\ dir'[path[t]] # NoIno

\* The step in which the loop finds its descriptor stale: that descriptor is
\* closed and the loop goes on with fd_new, which refers to the file the path
\* names and is not locked yet.
C12_StaleClosed ==
    \A t \in Threads :
        (pc[t] = "aq_reopen" /\ pc'[t] = "aq_flock") =>
            /\ ofd[fd[t]].ino # dir[path[t]]
            /\ fd[t] \notin DOMAIN ofd'
            /\ fd'[t] \in DOMAIN ofd'
            /\ ofd'[fd'[t]].ino = dir'[path[t]]
            /\ ~ofd'[fd'[t]].lk

\* As long as no call has failed, every open descriptor is recorded in its
\* owner's registry or is the one its owner's aquire_lock is working on.
C12_NoStrayDescriptor ==
    faults = 0 =>
        \A f \in DOMAIN ofd :
            \/ \E i \in 1..Len(locks[ofd[f].owner]) : locks[ofd[f].owner][i].fd = f
            \/ (pc[ofd[f].owner] \in {"aq_flock", "aq_reopen"} /\ fd[ofd[f].owner] = f)

\* C12: no stale lock at acquisition: when aquire_lock returns successfully
\* after a fresh acquisition, the descriptor it recorded carries the exclusive
\* flock and refers to the file the path names at that moment; every
\* descriptor found stale in the retry loop has been closed.
C12_NoStaleLock ==
    []C12_NoStrayDescriptor /\ [][C12_FreshAcquisition /\ C12_StaleClosed]_vars

\* A thread holds the path after an acquisition that had to drop a stale
\* descriptor, and its recorded descriptor refers to the file the path names.
C12_Witness ==
    \E t \in Threads :
        /\ pc[t] \notin AqStates
        /\ retries[t] >= 1
        /\ nacq[t][path[t]] = 1
        /\ have_lock(t, path[t])
        /\ ofd[_get_lock(t, path[t])].ino = dir[path[t]]
        /\ Cardinality({f \in DOMAIN ofd : ofd[f].owner = t}) = 1

\* Thread t's non-blocking flock finds the file locked through another
\* descriptor.
Contended(t) == pc[t] = "aq_flock" /\ ~blocking[t] /\ flock_busy(ofd, fd[t])

\* The step a contended non-blocking acquisition takes when flock reports
\* would-block: try_aquire_lock gives False, the descriptor is closed, no
\* registry changes and every other descriptor, the holder's included, is as
\* before.
C13_WouldBlockStep ==
    \A t \in Threads :
        (Contended(t) /\ Steps(t) /\ faults' = faults) =>
            /\ res'[t] = "False"
            /\ pc'[t] \in {"done", "body"}
            /\ fd[t] \notin DOMAIN ofd'
            /\ ofd' = Restrict(ofd, DOMAIN ofd \ {fd[t]})
            /\ locks' = locks
            /\ dir' = dir

\* A non-blocking acquisition never waits: at its flock it can always take a
\* step, and no descriptor of a thread that has got False is left open.
C13_NeverWaits ==
    \A t \in Threads :
        /\ (pc[t] = "aq_flock" /\ ~blocking[t]) => ENABLED AqFlock(t)
        /\ (pc[t] = "done" /\ op[t] = "try_aquire_lock" /\ res[t] = "False") =>
              /\ ~have_lock(t, path[t])
              /\ faults = 0 => {f \in DOMAIN ofd : ofd[f].owner = t} =
                                  {Reg(t)[i].fd : i \in 1..Len(Reg(t))}

Loaders == {"load_bytes_from_file", "load_text_from_file", "load_object_from_file"}

\* What a finished load call has returned to its caller.
Returned(t) == LoadResult(arg[t], obs[t])

\* Thread t's load reads its path in this step, and the read itself succeeds.
Reads(t) ==
    /\ pc[t] = "ld_read"
    /\ pc'[t] = "done"
    /\ arg[t].fn \in Loaders
    /\ faults' = faults

\* The path names no file, or a file without content.
Missing(p) == dir[p] = NoIno \/ inode[dir[p]] = <<>>

\* C14: a load_bytes_from_file, load_text_from_file or load_object_from_file
\* called with default D that reads a path which does not exist, or exists with
\* empty content, returns D and raises nothing, with lock=False and with
\* lock=True alike.
C14_MissingFile ==
    [][\A t \in Threads :
          (Reads(t) /\ Missing(path[t])) =>
              /\ res'[t] = "ok"
              /\ LoadResult(arg'[t], obs'[t]) = arg[t].obj]_vars

\* A locking load of each kind of missing file has returned its default: of q,
\* which the lock call has created empty, and of q when it did not exist.
C14_Witness ==
    \E t, u \in Threads :
        /\ pc[t] = "done" /\ arg[t].fn = "load_object_from_file" /\ lock[t]
        /\ path[t] = "q" /\ res[t] = "ok" /\ Returned(t) = arg[t].obj
        /\ dir["q"] # NoIno /\ inode[dir["q"]] = <<>>
        /\ pc[u] = "done" /\ arg[u].fn = "load_text_from_file" /\ ~lock[u]
        /\ path[u] = "q" /\ res[u] = "ok" /\ Returned(u) = arg[u].obj
        /\ u # t

\* ------------------------------------------------------------------ C15
\* Thread t's call is a save_text_to_file given bytes or a save_bytes_to_file
\* given text.
Mismatch(t) == arg[t].fn \in DOMAIN Takes /\ arg[t].obj.kind # Takes[arg[t].fn]

\* Such a call is at its type test or has raised TypeError: it never reaches
\* the lock or the temporary file.
C15_Rejected ==
    \A t \in Threads :
        Mismatch(t) => \/ pc[t] = "sv_type" /\ res[t] = "none"
                       \/ pc[t] = "done" /\ res[t] = "TypeError"

\* No step of such a call, from the call to its return, changes a file, a
\* name, a descriptor or a registry.
C15_NoEffect ==
    \A t \in Threads :
        (pc'[t] # pc[t] /\ (Mismatch(t) \/ Mismatch(t)')) =>
            UNCHANGED <<dir, tmpnames, inode, ofd, locks>>

\* C15: save_text_to_file given bytes and save_bytes_to_file given text raise
\* TypeError, and then no lock is acquired, no lock file or temporary file is
\* created, and the target file and the registry are as before the call.
C15_TypeMismatch == []C15_Rejected /\ [][C15_NoEffect]_vars

\* Both mismatches have been rejected, on a path that still does not exist.
C15_Witness ==
    \E t, u \in Threads :
        /\ pc[t] = "done" /\ arg[t].fn = "save_text_to_file" /\ arg[t].obj.kind = "bytes"
        /\ pc[u] = "done" /\ arg[u].fn = "save_bytes_to_file" /\ arg[u].obj.kind = "text"
        /\ res[t] = "TypeError" /\ res[u] = "TypeError"
        /\ path[t] = "q" /\ dir["q"] = NoIno /\ tmpnames = <<>> /\ DOMAIN ofd = {}

\* ------------------------------------------------------------------ C16
\* Thread t's load_object_from_file reads, without a read failure, a path whose
\* last save was a save_object_to_file.
ReadsObject(t) ==
    /\ Reads(t)
    /\ arg[t].fn = "load_object_from_file"
    /\ lastv[path[t]].kind = "object"

\* C16: after save_object_to_file(p, v, pretty) has replaced p, with pretty
\* False or True, and with no other save to p since, load_object_from_file(p,
\* default) raises nothing and returns a value equal to v.
C16_RoundTrip ==
    [][\A t \in Threads :
          ReadsObject(t) =>
              /\ res'[t] = "ok"
              /\ LoadResult(arg'[t], obs'[t]).kind = "object"
              /\ PyEq(LoadResult(arg'[t], obs'[t]).v, lastv[path[t]].v)]_vars

\* A dict saved pretty has been loaded again: equal to the one saved, with its
\* keys in sorted order where the saved one had them in insertion order.
C16_Witness ==
    \E t \in Threads :
        /\ pc[t] = "done" /\ arg[t].fn = "load_object_from_file" /\ res[t] = "ok"
        /\ lastv[path[t]].kind = "object"
        /\ Returned(t).kind = "object"
        /\ Returned(t).v.kind = "dict"
        /\ Returned(t).v # lastv[path[t]].v
        /\ PyEq(Returned(t).v, lastv[path[t]].v)

\* ------------------------------------------------------------------ C17
\* Thread t's load with lock=True fails in this step, after the lock call: at
\* the read, or at what the function does with the bytes read.
FailedLockingLoad(t) ==
    /\ pc[t] \in {"ld_read", "mk_read"}
    /\ pc'[t] = "done"
    /\ lock[t]
    /\ res'[t] \in Exceptions

\* C17: when a load with lock=True (load_bytes_from_file, load_text_from_file,
\* load_object_from_file, load_mk_file) fails for a reason other than the file
\* being absent, the failure reaches the caller as a read error (or as the
\* signal it is) and the thread no longer holds the lock on the path.
C17_FailedLoadReleases ==
    [][\A t \in Threads :
          FailedLockingLoad(t) =>
              /\ res'[t] \in {"MKGeneralException"} \cup Signals
              /\ ~have_lock(t, path[t])']_vars

\* The part that holds: a failure of the read in _load_bytes_from_file itself
\* releases the lock before it is raised.
C17_ReadFailureReleases ==
    [][\A t \in Threads :
          (FailedLockingLoad(t) /\ pc[t] = "ld_read" /\ faults' # faults) =>
              /\ res'[t] \in {"MKGeneralException"} \cup Signals
              /\ ~have_lock(t, path[t])']_vars

\* What load_mk_file does: it fails with the lock still held.
C17_MkFileKeepsLock ==
    [][\A t \in Threads :
          (FailedLockingLoad(t) /\ pc[t] = "mk_read") => have_lock(t, path[t])']_vars

\* ------------------------------------------------------------------ C18
\* Thread t's registry has an entry for the file that n names, under whatever
\* spelling it was acquired.
HoldsFile(t, n) == \E i \in 1..Len(Reg(t)) : Resolve(Reg(t)[i].name) = Resolve(n)

\* The descriptors of thread t on the file that n names.
DescriptorsOn(t, n) ==
    {f \in DOMAIN ofd : ofd[f].owner = t /\ ofd[f].ino = dir[Resolve(n)]}

C18_NoSelfBlock ==
    \A t \in Threads :
        (faults = 0 /\ pc[t] = "aq_flock" /\ flock_busy(ofd, fd[t])) =>
            \E g \in DOMAIN ofd :
                /\ g # fd[t] /\ ofd[g].ino = ofd[fd[t]].ino /\ ofd[g].lk
                /\ ofd[g].owner # t

\* ------------------------------------------------------------------ C19
InConfigLock(t) == op[t] = "lock_checkmk_configuration"

\* A timeout never leaves the wrapper under its own name; the wrapper's own
\* exception belongs to a call that has ended without a body; the body runs
\* with the lock held; after the body, however it ended, the thread holds
\* neither the registry entry nor a flock on the configuration lock file.
C19_Distinguished ==
    \A t \in Threads :
        InConfigLock(t) =>
            /\ res[t] # "MKTimeout"
            /\ res[t] = "MKConfigLockTimeout" => pc[t] = "done"
            /\ pc[t] = "body" => have_lock(t, configuration_lockfile)
            /\ (pc[t] = "done" /\ res[t] \in {"ok", "BodyError"}) =>
                  /\ ~have_lock(t, configuration_lockfile)
                  /\ FlocksOn(t, configuration_lockfile) = {}

\* MKConfigLockTimeout is raised out of aquire_lock, and ends the call there.
C19_RaisedInAquire ==
    \A t \in Threads :
        (InConfigLock(t) /\ res[t] # "MKConfigLockTimeout"
                         /\ res'[t] = "MKConfigLockTimeout") =>
            pc[t] \in AqStates /\ pc'[t] = "done"

\* The body is left through release_lock(path) alone.
C19_BodyExit ==
    \A t \in Threads :
        (InConfigLock(t) /\ pc[t] = "body" /\ pc'[t] # "body") => pc'[t] = "fin_release"

\* C19: in lock_checkmk_configuration an MKTimeout raised while the
\* configuration lock is acquired is re-raised as MKConfigLockTimeout and the
\* body is not run; when the body runs, the configuration lock is released on
\* every exit of the body, normal or exceptional.
C19_ConfigLock == []C19_Distinguished /\ [][C19_RaisedInAquire /\ C19_BodyExit]_vars

\* One thread has timed out waiting for the configuration lock, which another
\* holds inside the body.
C19_Witness ==
    \E t, u \in Threads :
        /\ InConfigLock(t) /\ pc[t] = "done" /\ res[t] = "MKConfigLockTimeout"
        /\ InConfigLock(u) /\ pc[u] = "body"

\* The body has raised, and the lock is released.
C19_BodyRaised ==
    \E t \in Threads :
        /\ InConfigLock(t) /\ pc[t] = "done" /\ res[t] = "BodyError"
        /\ ~have_lock(t, configuration_lockfile)

\* ------------------------------------------------------------------ C20
\* Thread t's cycle is between the successful acquisition of its path and the
\* rename onto it.
InCycle(t) ==
    /\ arg[t].fn = "cycle"
    /\ \/ op[t] = "_load_bytes_from_file" /\ (pc[t] = "ld_read" \/ CycleLoaded(t))
       \/ /\ op[t] = "_save_data_to_file"
          /\ pc[t] \in {"aq_open", "aq_flock", "aq_reopen", "sv_mktemp", "sv_write",
                         "sv_rename"}

\* At most one cycle at a time is in that stretch for a path, and the one
\* that is holds the lock throughout.
C20_OneInCycle ==
    \A t \in Threads :
        InCycle(t) =>
            /\ have_lock(t, path[t])
            /\ \A u \in Threads \ {t} : ~(InCycle(u) /\ path[u] = path[t])

\* Thread t's cycle renames its temporary file onto the path in this step.
Renames(t) ==
    /\ arg[t].fn = "cycle"
    /\ pc[t] = "sv_rename"
    /\ dir'[path[t]] # dir[path[t]]

\* The file a cycle replaces is still the one it loaded, and the file it puts
\* in place is what it derived from that: no rename came in between.
C20_Replaces ==
    \A t \in Threads :
        Renames(t) =>
            /\ FileAt(path[t]) = obs[t]
            /\ FileAt(path[t])' = Derive(FileAt(path[t]), t)

\* C20: when threads each run the cycle of load(p, lock=True) and an atomic
\* save of a value derived from what was loaded, at most one of them at a time
\* is between its acquisition of p and its rename onto p, and each cycle loads
\* the content written by the cycle that renamed last before it: no update is
\* lost, although every save replaces the file on which the lock is held.
C20_NoLostUpdate == []C20_OneInCycle /\ [][C20_Replaces]_vars

\* A cycle that found its descriptor stale, because another cycle had renamed
\* while it waited, has gone round the loop and loaded what that cycle wrote.
C20_Witness ==
    \E t \in Threads :
        /\ CycleLoaded(t)
        /\ retries[t] >= 1
        /\ Len(obs[t]) = 2
        /\ obs[t][2] # t

\* ------------------------------------------------------------------ C21
\* Thread t's aquire_lock or try_aquire_lock leaves aquire_lock by an
\* exception in this step (EAGAIN, which try_aquire_lock returns as False,
\* included).
FailsToAquire(t) ==
    /\ op[t] \in {"aquire_lock", "try_aquire_lock"}
    /\ pc[t] \in AqStates
    /\ pc'[t] = "done"
    /\ res'[t] \in Exceptions

\* C21: a failed acquisition leaves nothing behind: on every failing exit of
\* aquire_lock(p), a failure of the lock call and a failure of the re-open
\* after the lock was granted included, the descriptor the call was working on
\* is closed, the call has added no flock of the thread on p, and the registry
\* is unchanged.
C21_NothingLeftBehind ==
    [][\A t \in Threads :
          FailsToAquire(t) =>
              /\ fd[t] \notin DOMAIN ofd'
              /\ FlocksOn(t, path[t])' \subseteq FlocksOn(t, path[t]) \ {fd[t]}
              /\ locks' = locks]_vars

\* The part that holds: an IOError of flock itself, EAGAIN or another, and a
\* failure of the first open leave no descriptor and no registry entry.
C21_LockCallFailureClean ==
    [][\A t \in Threads :
          (FailsToAquire(t) /\ pc[t] \in {"aq_open", "aq_flock"}
                            /\ res'[t] \notin Signals) =>
              /\ fd[t] \notin DOMAIN ofd'
              /\ locks' = locks]_vars

\* What the failing re-open leaves: the descriptor open, with the flock on
\* the file the path names, and recorded nowhere.
C21_ReopenFailureLeaks ==
    [][\A t \in Threads :
          (FailsToAquire(t) /\ pc[t] = "aq_reopen") =>
              /\ fd[t] \in DOMAIN ofd'
              /\ ofd'[fd[t]].lk
              /\ ~have_lock(t, path[t])']_vars

\* ------------------------------------------------------------------ C22
\* Thread t's load with lock=True, of a path the thread held before the call,
\* ends in this step: the lock call of the load was the second acquisition, at
\* least, since the path was last released.
EndsLoadOfHeld(t) ==
    /\ op[t] = "_load_bytes_from_file"
    /\ arg[t].fn \in Loaders
    /\ lock[t]
    /\ pc[t] = "ld_read"
    /\ pc'[t] = "done"
    /\ nacq[t][path[t]] >= 2

\* C22: a load never gives up a lock the caller already had: a thread that
\* holds p before load_bytes_from_file / load_text_from_file /
\* load_object_from_file with lock=True still holds p when the call ends,
\* when the read succeeds and when it fails with a read error or a rethrown
\* MKTerminate / MKTimeout.
C22_KeepsCallersLock ==
    [][\A t \in Threads : EndsLoadOfHeld(t) => have_lock(t, path[t])']_vars

\* The part that holds: the lock is kept when the read succeeds.
C22_SuccessKeeps ==
    [][\A t \in Threads :
          (EndsLoadOfHeld(t) /\ faults' = faults) => have_lock(t, path[t])']_vars

\* What the code does when the read raises: the lock is gone, the caller's
\* earlier acquisition with it.
C22_FailureDrops ==
    [][\A t \in Threads :
          (EndsLoadOfHeld(t) /\ faults' # faults) =>
              /\ ~have_lock(t, path[t])'
              /\ FlocksOn(t, path[t])' = {}]_vars

====
